---- MODULE Spec2Model ----
(***************************************************************************)
(* A model of the SBOM validation engine of backends/python:               *)
(* converters/sbom_utils.py, converters/sbom_validator.py and              *)
(* converters/sbom_unifier.py.                                             *)
(*                                                                         *)
(* JSON objects (Python dicts) are functions from key strings to values;   *)
(* a key that is missing from the dict is missing from the DOMAIN.  JSON   *)
(* arrays are sequences, JSON strings are strings.  Python's None is the   *)
(* string None below, which no input document contains as a string.        *)
(***************************************************************************)
EXTENDS Integers, Sequences, FiniteSets, TLC

VARIABLES
    document,   \* the parsed document handed to validate_sbom
    pc,         \* position of the running call
    issues,     \* validate_sbom: the local list `issues`
    response,   \* validate_sbom: the ValidateResponse returned
    arg,        \* arguments of a direct call of unify_sboms or a utility function
    ret,        \* result of that call
    heap,                 \* the dicts and lists unify_sboms works on, by address
    unified_components,   \* unify_sboms: address of the local list
    all_dependencies,     \* unify_sboms: address of the local list
    total_flat_count,     \* unify_sboms: the local counter
    doc_index,            \* unify_sboms: position of the for loop over documents
    vcs_issues,    \* validate_vcs_accessibility: the local list `issues`
    safe_entries,  \* validate_vcs_accessibility: the local list
    client,        \* validate_vcs_accessibility: state of the httpx.AsyncClient
    tasks,         \* validate_vcs_accessibility: the probes handed to gather
    requests,      \* the GET requests sent so far, in order
    fs,         \* ProjectStore: the directories and files on disk, by path
    clock,      \* the time datetime.now reads next
    issued,     \* the values uuid.uuid4 has returned so far, each with the method that asked
    live        \* history: the projects created and not deleted since

unifyVars == <<heap, unified_components, all_dependencies, total_flat_count, doc_index>>
vcsVars == <<vcs_issues, safe_entries, client, tasks, requests>>
storeVars == <<fs, clock, issued, live>>
vars == <<document, pc, issues, response, arg, ret, unifyVars, vcsVars, storeVars>>

None == "<None>"

-----------------------------------------------------------------------------
(* Python dict access.                                                     *)

Has(d, k) == k \in DOMAIN d

\* d.get(k, default)
Get(d, k, default) == IF k \in DOMAIN d THEN d[k] ELSE default

\* bool(d.get(k)) for a string-valued key: missing, null and "" are falsy
TruthyStr(d, k) == k \in DOMAIN d /\ d[k] # None /\ d[k] # ""

\* bool(d.get(k)) for a list- or dict-valued key: missing and empty are falsy
TruthyColl(d, k) == k \in DOMAIN d /\ DOMAIN d[k] # {}

\* comp.get("components", [])
ChildrenOf(comp) == Get(comp, "components", <<>>)

-----------------------------------------------------------------------------
(* converters/sbom_utils.py                                                *)

GOST_PREFIX == "cdx:gost:"

\* str.lower() on one character (the ASCII letters)
LowerChar(c) ==
    CASE c = "A" -> "a" [] c = "B" -> "b" [] c = "C" -> "c" [] c = "D" -> "d"
      [] c = "E" -> "e" [] c = "F" -> "f" [] c = "G" -> "g" [] c = "H" -> "h"
      [] c = "I" -> "i" [] c = "J" -> "j" [] c = "K" -> "k" [] c = "L" -> "l"
      [] c = "M" -> "m" [] c = "N" -> "n" [] c = "O" -> "o" [] c = "P" -> "p"
      [] c = "Q" -> "q" [] c = "R" -> "r" [] c = "S" -> "s" [] c = "T" -> "t"
      [] c = "U" -> "u" [] c = "V" -> "v" [] c = "W" -> "w" [] c = "X" -> "x"
      [] c = "Y" -> "y" [] c = "Z" -> "z" [] OTHER -> c

\* str.lower()
RECURSIVE Lower(_)
Lower(s) ==
    IF Len(s) = 0 THEN ""
    ELSE LowerChar(SubSeq(s, 1, 1)) \o Lower(SubSeq(s, 2, Len(s)))

\* GOST_HIERARCHY.get(key, -1)
GOST_HIERARCHY(key) ==
    CASE key = "yes" -> 2
      [] key = "indirect" -> 1
      [] key = "no" -> 0
      [] OTHER -> -1

\* the loop of get_prop: the value of the first property named prop_name
RECURSIVE ScanProps(_, _)
ScanProps(properties, prop_name) ==
    IF properties = <<>> THEN None
    ELSE IF Get(Head(properties), "name", None) = prop_name
         THEN Get(Head(properties), "value", None)
         ELSE ScanProps(Tail(properties), prop_name)

get_prop(component, prop_name) ==
    LET properties == Get(component, "properties", <<>>)
    IN  IF properties = <<>> THEN None ELSE ScanProps(properties, prop_name)

get_gost_prop(component, gost_name) ==
    get_prop(component, GOST_PREFIX \o gost_name)

\* eval_prop without the call of lower()
eval_prop_case_sensitive(value) ==
    IF value = None THEN -1 ELSE GOST_HIERARCHY(value)

eval_prop(value) ==
    IF value = None THEN -1 ELSE GOST_HIERARCHY(Lower(value))

\* the while loop of flatten_components: pop the last element of the stack,
\* append it to the result, push its children
RECURSIVE FlattenLoop(_, _)
FlattenLoop(stack, result) ==
    IF stack = <<>> THEN result
    ELSE LET comp == stack[Len(stack)]
             rest == SubSeq(stack, 1, Len(stack) - 1)
             children == ChildrenOf(comp)
         IN  FlattenLoop(IF children # <<>> THEN rest \o children ELSE rest,
                         Append(result, comp))

\* flatten_components without the descent into children
flatten_components_top_level(components) == components

flatten_components(components) == FlattenLoop(components, <<>>)

-----------------------------------------------------------------------------
(* converters/sbom_validator.py                                            *)
(*                                                                         *)
(* A ValidationIssue is [level, message, path].  The message is the        *)
(* sequence of the f-string's parts: an identifier of its fixed text,      *)
(* followed by the interpolated values in their order of appearance.       *)

ValidationIssue(level, message, path) ==
    [level |-> level, message |-> message, path |-> path]

\* f"{base_path}[{i}]", i counted from 0 as enumerate does
IndexPath(base_path, i) == base_path \o "[" \o ToString(i - 1) \o "]"

\* the bomFormat check
BomFormatIssues(doc) ==
    LET bom_format == Get(doc, "bomFormat", None)
    IN  IF bom_format # "CycloneDX"
        THEN <<ValidationIssue("error", <<"bomFormat must be CycloneDX, got", bom_format>>,
                               "$.bomFormat")>>
        ELSE <<>>

\* the specVersion check with an unsupported version reported as an error
SpecVersionIssues_strict(doc) ==
    LET spec_version == Get(doc, "specVersion", None)
    IN  IF ~TruthyStr(doc, "specVersion")
        THEN <<ValidationIssue("error", <<"specVersion is required">>, "$.specVersion")>>
        ELSE IF spec_version \notin {"1.4", "1.5", "1.6"}
        THEN <<ValidationIssue("error", <<"specVersion may be unsupported", spec_version>>,
                               "$.specVersion")>>
        ELSE <<>>

\* the specVersion check; `not spec_version` holds for a missing key, null and ""
SpecVersionIssues(doc) ==
    LET spec_version == Get(doc, "specVersion", None)
    IN  IF ~TruthyStr(doc, "specVersion")
        THEN <<ValidationIssue("error", <<"specVersion is required">>, "$.specVersion")>>
        ELSE IF spec_version \notin {"1.4", "1.5", "1.6"}
        THEN <<ValidationIssue("warning", <<"specVersion may be unsupported", spec_version>>,
                               "$.specVersion")>>
        ELSE <<>>

\* the check that the document has components or vulnerabilities
ContentIssues(doc) ==
    IF ~Has(doc, "components") /\ ~Has(doc, "vulnerabilities")
    THEN <<ValidationIssue("warning", <<"neither components nor vulnerabilities">>, "$")>>
    ELSE <<>>

\* the metadata checks
MetadataIssues(doc) ==
    IF ~TruthyColl(doc, "metadata")
    THEN <<ValidationIssue("warning", <<"metadata section missing">>, "$.metadata")>>
    ELSE IF ~TruthyStr(doc.metadata, "timestamp")
    THEN <<ValidationIssue("warning", <<"metadata timestamp missing">>,
                           "$.metadata.timestamp")>>
    ELSE <<>>

_validate_structure(doc) ==
    BomFormatIssues(doc) \o SpecVersionIssues(doc) \o ContentIssues(doc) \o MetadataIssues(doc)

\* valid_types with "unknown" among them
valid_types_with_unknown ==
    {"application", "framework", "library", "container", "platform",
     "operating-system", "device", "device-driver", "firmware", "file",
     "machine-learning-model", "data", "unknown"}

valid_types ==
    {"application", "framework", "library", "container", "platform",
     "operating-system", "device", "device-driver", "firmware", "file",
     "machine-learning-model", "data"}

\* the required-field checks with the name checked only when the type is there
RequiredFieldIssues_elif(comp, path) ==
    IF ~TruthyStr(comp, "type")
    THEN <<ValidationIssue("error", <<"component must have a type">>, path)>>
    ELSE IF ~TruthyStr(comp, "name")
    THEN <<ValidationIssue("error", <<"component must have a name">>, path)>>
    ELSE <<>>

\* the two required-field checks of one component
RequiredFieldIssues(comp, path) ==
    (IF ~TruthyStr(comp, "type")
     THEN <<ValidationIssue("error", <<"component must have a type">>, path)>>
     ELSE <<>>)
 \o (IF ~TruthyStr(comp, "name")
     THEN <<ValidationIssue("error", <<"component must have a name">>, path)>>
     ELSE <<>>)

\* the known-type check of one component
UnknownTypeIssues(comp, path) ==
    LET comp_type == Get(comp, "type", "")
    IN  IF comp_type # None /\ comp_type # "" /\ comp_type \notin valid_types
        THEN <<ValidationIssue("warning", <<"unknown component type", comp_type>>,
                               path \o ".type")>>
        ELSE <<>>

\* the for loop of _validate_components, from the i-th component on
RECURSIVE ValidateComponentsLoop(_, _, _)
ValidateComponentsLoop(components, i, base_path) ==
    IF i > Len(components) THEN <<>>
    ELSE LET comp == components[i]
             path == IndexPath(base_path, i)
             children == ChildrenOf(comp)
         IN  RequiredFieldIssues(comp, path)
          \o UnknownTypeIssues(comp, path)
          \o (IF children # <<>>
              THEN ValidateComponentsLoop(children, 1, path \o ".components")
              ELSE <<>>)
          \o ValidateComponentsLoop(components, i + 1, base_path)

_validate_components(components, base_path) ==
    ValidateComponentsLoop(components, 1, base_path)

GostProps == <<"attack_surface", "security_function">>

\* the condition without the test that the parent has a recognized value
HierarchyViolated_any_parent(child_level, parent_level) ==
    child_level > parent_level

\* the condition under which a child is reported against its parent
HierarchyViolated(child_level, parent_level) ==
    child_level > parent_level /\ parent_level >= 0

\* the loop over the children of comp for one property, from the j-th child on
RECURSIVE HierarchyChildLoop(_, _, _, _, _)
HierarchyChildLoop(comp, path, prop_name, children, j) ==
    IF j > Len(children) THEN <<>>
    ELSE LET child == children[j]
             parent_val == get_gost_prop(comp, prop_name)
             parent_level == eval_prop(parent_val)
             child_val == get_gost_prop(child, prop_name)
             child_level == eval_prop(child_val)
         IN  (IF HierarchyViolated(child_level, parent_level)
              THEN <<ValidationIssue("error",
                        <<"child exceeds parent", "GOST:" \o prop_name,
                          Get(child, "name", "?"), child_val,
                          Get(comp, "name", "?"), parent_val>>,
                        IndexPath(path \o ".components", j))>>
              ELSE <<>>)
          \o HierarchyChildLoop(comp, path, prop_name, children, j + 1)

\* check_hierarchy without the recursion into the children
RECURSIVE check_hierarchy_top_level(_, _, _)
check_hierarchy_top_level(comps, i, base_path) ==
    IF i > Len(comps) THEN <<>>
    ELSE LET comp == comps[i]
             path == IndexPath(base_path, i)
             children == ChildrenOf(comp)
         IN  (IF children = <<>> THEN <<>>
              ELSE HierarchyChildLoop(comp, path, GostProps[1], children, 1)
                \o HierarchyChildLoop(comp, path, GostProps[2], children, 1))
          \o check_hierarchy_top_level(comps, i + 1, base_path)

\* check_hierarchy, from the i-th component on
RECURSIVE check_hierarchy(_, _, _)
check_hierarchy(comps, i, base_path) ==
    IF i > Len(comps) THEN <<>>
    ELSE LET comp == comps[i]
             path == IndexPath(base_path, i)
             children == ChildrenOf(comp)
         IN  (IF children = <<>> THEN <<>>
              ELSE HierarchyChildLoop(comp, path, GostProps[1], children, 1)
                \o HierarchyChildLoop(comp, path, GostProps[2], children, 1)
                \o check_hierarchy(children, 1, path \o ".components"))
          \o check_hierarchy(comps, i + 1, base_path)

_validate_gost_hierarchy(doc) ==
    check_hierarchy(Get(doc, "components", <<>>), 1, "$.components")

\* check_gost_presence, from the i-th component on
RECURSIVE check_gost_presence(_, _)
check_gost_presence(comps, i) ==
    IF i > Len(comps) THEN FALSE
    ELSE LET comp == comps[i]
             children == ChildrenOf(comp)
         IN  IF get_gost_prop(comp, "attack_surface") # None THEN TRUE
             ELSE IF get_gost_prop(comp, "security_function") # None THEN TRUE
             ELSE IF children # <<>> /\ check_gost_presence(children, 1) THEN TRUE
             ELSE check_gost_presence(comps, i + 1)

\* the warnings of check_missing with an empty value taken as present
MissingFieldIssues_none_only(comp, path, prop_name) ==
    LET val == get_gost_prop(comp, prop_name)
    IN  IF val = None
        THEN <<ValidationIssue("warning",
                  <<"GOST field missing", "GOST:" \o prop_name, Get(comp, "name", "?")>>,
                  path)>>
        ELSE <<>>

\* the warnings of check_missing for one property of one component
MissingFieldIssues(comp, path, prop_name) ==
    LET val == get_gost_prop(comp, prop_name)
    IN  IF val = None
        THEN <<ValidationIssue("warning",
                  <<"GOST field missing", "GOST:" \o prop_name, Get(comp, "name", "?")>>,
                  path)>>
        ELSE IF val = ""
        THEN <<ValidationIssue("warning",
                  <<"GOST field empty", "GOST:" \o prop_name, Get(comp, "name", "?")>>,
                  path)>>
        ELSE <<>>

\* check_missing, from the i-th component on
RECURSIVE check_missing(_, _, _)
check_missing(comps, i, base_path) ==
    IF i > Len(comps) THEN <<>>
    ELSE LET comp == comps[i]
             path == IndexPath(base_path, i)
             children == ChildrenOf(comp)
         IN  MissingFieldIssues(comp, path, "attack_surface")
          \o MissingFieldIssues(comp, path, "security_function")
          \o (IF children # <<>>
              THEN check_missing(children, 1, path \o ".components")
              ELSE <<>>)
          \o check_missing(comps, i + 1, base_path)

_validate_gost_fields(doc) ==
    LET components == Get(doc, "components", <<>>)
        has_any_gost == check_gost_presence(components, 1)
    IN  IF ~has_any_gost THEN <<>>
        ELSE check_missing(components, 1, "$.components")

\* any(ref.get("type") == "vcs" for ref in external_refs)
HasVcs(comp) ==
    LET external_refs == Get(comp, "externalReferences", <<>>)
    IN  \E k \in 1..Len(external_refs) : Get(external_refs[k], "type", None) = "vcs"

\* the types check_vcs passes over
VcsSkippedTypes == {"operating-system", "framework"}

\* the types check_vcs reports
VcsReportedTypes == {"application", "library"}

\* the warning of check_vcs without the restriction to the reported types
VcsIssues_any_type(comp, path) ==
    IF ~HasVcs(comp)
    THEN <<ValidationIssue("warning", <<"VCS reference missing", Get(comp, "name", "?")>>,
                           path)>>
    ELSE <<>>

\* the warning of check_vcs for one component that is not passed over
VcsIssues(comp, path) ==
    IF ~HasVcs(comp) /\ Get(comp, "type", "") \in VcsReportedTypes
    THEN <<ValidationIssue("warning", <<"VCS reference missing", Get(comp, "name", "?")>>,
                           path)>>
    ELSE <<>>

\* check_vcs, from the i-th component on; `continue` on a passed-over type
\* leaves the rest of the loop body, the recursion into the children included
RECURSIVE check_vcs(_, _, _)
check_vcs(comps, i, base_path) ==
    IF i > Len(comps) THEN <<>>
    ELSE LET comp == comps[i]
             path == IndexPath(base_path, i)
             children == ChildrenOf(comp)
         IN  (IF Get(comp, "type", "") \in VcsSkippedTypes THEN <<>>
              ELSE VcsIssues(comp, path)
                \o (IF children # <<>>
                    THEN check_vcs(children, 1, path \o ".components")
                    ELSE <<>>))
          \o check_vcs(comps, i + 1, base_path)

_validate_vcs_references(doc) ==
    check_vcs(Get(doc, "components", <<>>), 1, "$.components")

\* has_errors counting warnings as well
has_errors_or_warnings(iss) ==
    \E k \in 1..Len(iss) : iss[k].level \in {"error", "warning"}

\* any(i.level == "error" for i in issues)
has_errors(iss) == \E k \in 1..Len(iss) : iss[k].level = "error"

-----------------------------------------------------------------------------
(* converters/sbom_unifier.py: GOST aggregation                            *)

\* the loop of _aggregate_gost with >= in place of >: ties keep the last value
RECURSIVE AggregateLoop_last_wins(_, _, _, _, _)
AggregateLoop_last_wins(components, i, prop_name, max_level, max_value) ==
    IF i > Len(components) THEN max_value
    ELSE LET val == get_gost_prop(components[i], prop_name)
             level == eval_prop(val)
         IN  IF level >= max_level
             THEN AggregateLoop_last_wins(components, i + 1, prop_name, level, val)
             ELSE AggregateLoop_last_wins(components, i + 1, prop_name, max_level, max_value)

\* the for loop of _aggregate_gost, from the i-th component on
RECURSIVE AggregateLoop(_, _, _, _, _)
AggregateLoop(components, i, prop_name, max_level, max_value) ==
    IF i > Len(components) THEN max_value
    ELSE LET val == get_gost_prop(components[i], prop_name)
             level == eval_prop(val)
         IN  IF level > max_level
             THEN AggregateLoop(components, i + 1, prop_name, level, val)
             ELSE AggregateLoop(components, i + 1, prop_name, max_level, max_value)

\* the value of the first component in place of the highest
_aggregate_gost_first(components, prop_name) ==
    IF components = <<>> THEN None ELSE get_gost_prop(components[1], prop_name)

_aggregate_gost(components, prop_name) ==
    AggregateLoop(components, 1, prop_name, -1, None)

-----------------------------------------------------------------------------
(* Input documents.  A component forest is drawn from all ordered forests  *)
(* with a bounded number of nodes, each node carrying one of a finite set  *)
(* of attribute records.  A forest of n nodes is given by the parent of    *)
(* each node, the nodes numbered 1..n in document order (0: top level),    *)
(* and by the attributes of each node; names are made distinct by          *)
(* position.                                                               *)

MaxNodes == 3
MaxVcsNodes == 2

RECURSIVE IsAncestorOrSelf(_, _, _)
IsAncestorOrSelf(par, a, v) ==
    v = a \/ (v # 0 /\ IsAncestorOrSelf(par, a, par[v]))

\* in document order the parent of node i is node i - 1, one of its ancestors,
\* or none
Shapes(n) ==
    {par \in [1..n -> 0..(n - 1)] :
        \A i \in 1..n : par[i] < i /\ (i > 1 => IsAncestorOrSelf(par, par[i], i - 1))}

Named(a, nm) ==
    [k \in DOMAIN a |-> IF k = "name" /\ a[k] # "" THEN nm ELSE a[k]]

RECURSIVE BuildList(_, _, _, _, _)
BuildNode(par, lab, v, nm) ==
    LET kids == {i \in DOMAIN par : par[i] = v}
    IN  Named(lab[v], nm)
        @@ (IF kids = {} THEN <<>>
            ELSE [components |-> BuildList(par, lab, kids, 0, nm \o ".")])

BuildList(par, lab, kids, idx, prefix) ==
    IF kids = {} THEN <<>>
    ELSE LET k == CHOOSE x \in kids : \A y \in kids : x <= y
         IN  <<BuildNode(par, lab, k, prefix \o ToString(idx))>>
             \o BuildList(par, lab, kids \ {k}, idx + 1, prefix)

BuildForest(par, lab) ==
    BuildList(par, lab, {i \in DOMAIN par : par[i] = 0}, 0, "c")

\* the dict with the key k when S is a singleton {v}, without it when S is empty
Opt(k, S) == IF S = {} THEN <<>> ELSE [x \in {k} |-> CHOOSE v \in S : TRUE]

WellFormedDoc(forest) ==
    [bomFormat |-> "CycloneDX", specVersion |-> "1.6",
     metadata |-> [timestamp |-> "2024-01-01T00:00:00Z"], components |-> forest]

Prop(name, value) == [name |-> name, value |-> value]

\* property lists exercising the GOST rules: absent, every rank, mixed case,
\* empty and unrecognized values, a repeated property name
GostPropertyLists ==
    { <<Prop("cdx:gost:attack_surface", "no"), Prop("cdx:gost:security_function", "indirect")>>,
      <<Prop("cdx:gost:attack_surface", "Indirect")>>,
      <<Prop("cdx:gost:attack_surface", "YES"), Prop("cdx:gost:security_function", "no")>>,
      <<Prop("cdx:gost:security_function", "yes")>>,
      <<Prop("cdx:gost:attack_surface", ""), Prop("cdx:gost:security_function", "high")>>,
      <<Prop("cdx:gost:provided_by", "vendor"), Prop("cdx:gost:attack_surface", "no"),
        Prop("cdx:gost:attack_surface", "yes")>>,
      <<Prop("cdx:gost:security_function", "yes"), Prop("cdx:gost:attack_surface", "yes")>> }

GostAttrs ==
    {[type |-> "library", name |-> "n"]}
    \cup {[type |-> "library", name |-> "n", properties |-> pl] : pl \in GostPropertyLists}

-----------------------------------------------------------------------------
(* validate_sbom, one action per statement group of its body               *)

\* no call of unify_sboms is in progress
NoUnifyCall ==
    /\ heap = <<>>
    /\ unified_components = 0
    /\ all_dependencies = 0
    /\ total_flat_count = 0
    /\ doc_index = 0

\* no call of validate_vcs_accessibility is in progress
NoStoreCall ==
    /\ fs = <<>>
    /\ clock = 0
    /\ issued = <<>>
    /\ live = {}

NoVcsCall ==
    /\ vcs_issues = <<>>
    /\ safe_entries = <<>>
    /\ client = "none"
    /\ tasks = <<>>
    /\ requests = <<>>

Call_validate_sbom(doc) ==
    /\ document = doc
    /\ pc = "step1"
    /\ issues = <<>>
    /\ response = <<>>
    /\ arg = None
    /\ ret = None
    /\ NoUnifyCall
    /\ NoVcsCall
    /\ NoStoreCall

Step1Structure ==
    /\ pc = "step1"
    /\ issues' = issues \o _validate_structure(document)
    /\ pc' = "step2"
    /\ UNCHANGED <<document, response, arg, ret, unifyVars, storeVars, vcsVars>>

Step2Components ==
    /\ pc = "step2"
    /\ LET components == Get(document, "components", <<>>)
       IN  issues' = IF components # <<>>
                     THEN issues \o _validate_components(components, "$.components")
                     ELSE issues
    /\ pc' = "step3"
    /\ UNCHANGED <<document, response, arg, ret, unifyVars, storeVars, vcsVars>>

Step3GostHierarchy ==
    /\ pc = "step3"
    /\ issues' = issues \o _validate_gost_hierarchy(document)
    /\ pc' = "step3fields"
    /\ UNCHANGED <<document, response, arg, ret, unifyVars, storeVars, vcsVars>>

Step3GostFields ==
    /\ pc = "step3fields"
    /\ issues' = issues \o _validate_gost_fields(document)
    /\ pc' = "step4"
    /\ UNCHANGED <<document, response, arg, ret, unifyVars, storeVars, vcsVars>>

\* step 4 skipped once an error has been reported
Step4VcsReferences_abort_on_error ==
    /\ pc = "step4"
    /\ issues' = IF has_errors(issues) THEN issues
                 ELSE issues \o _validate_vcs_references(document)
    /\ pc' = "return"
    /\ UNCHANGED <<document, response, arg, ret, unifyVars, storeVars, vcsVars>>

Step4VcsReferences ==
    /\ pc = "step4"
    /\ issues' = issues \o _validate_vcs_references(document)
    /\ pc' = "return"
    /\ UNCHANGED <<document, response, arg, ret, unifyVars, storeVars, vcsVars>>

Return ==
    /\ pc = "return"
    /\ response' = [valid |-> ~has_errors(issues),
                    issues |-> issues,
                    schema_version |-> Get(document, "specVersion", None)]
    /\ pc' = "done"
    /\ UNCHANGED <<document, issues, arg, ret, unifyVars, storeVars, vcsVars>>

validate_sbom ==
    \/ Step1Structure
    \/ Step2Components
    \/ Step3GostHierarchy
    \/ Step3GostFields
    \/ Step4VcsReferences
    \/ Return

\* documents varying in the fields the structural rule set reads, over a few
\* component forests: none, the single application of the end-to-end scenario,
\* and one on which every component rule set reports something
ScenarioForest ==
    <<[type |-> "application", name |-> "MyApp", version |-> "1.0.0"]>>

MixedForest ==
    <<[name |-> "svc",
       properties |-> <<Prop("cdx:gost:attack_surface", "no")>>,
       components |->
         <<[type |-> "library", name |-> "lib",
            properties |-> <<Prop("cdx:gost:attack_surface", "yes")>>]>>]>>

StructDocuments ==
    {Opt("bomFormat", bf) @@ Opt("specVersion", sv) @@ Opt("metadata", md)
       @@ Opt("components", cs) @@ Opt("vulnerabilities", vs) :
        bf \in {{}, {None}, {"CycloneDX"}, {"SPDX"}},
        sv \in {{}, {None}, {""}, {"1.3"}, {"1.4"}, {"1.5"}, {"1.6"}},
        md \in {{}, {<<>>}, {[timestamp |-> "2024-01-01T00:00:00Z"]},
                {[component |-> [type |-> "application", name |-> "app"]]}},
        cs \in {{}, {<<>>}, {ScenarioForest}, {MixedForest}},
        vs \in {{}, {<<>>}}}

\* components varying in the required fields
CompAttrs ==
    {Opt("type", t) @@ Opt("name", n) : t \in {{}, {""}, {"library"}}, n \in {{}, {"n"}}}
    \cup {[type |-> "gadget", name |-> "n"]}

\* components varying in type and external references
ExternalReferenceLists ==
    {{},
     {<<[type |-> "website", url |-> "https://example.org"]>>},
     {<<[type |-> "website", url |-> "https://example.org"],
        [type |-> "vcs", url |-> "https://github.com/org/repo"]>>}}

VcsAttrs ==
    {[name |-> "n"] @@ Opt("type", t) @@ Opt("externalReferences", er) :
        t \in {{}, {"application"}, {"library"}, {"operating-system"}, {"framework"},
               {"container"}, {"file"}},
        er \in ExternalReferenceLists}

\* validate_sbom called on a well-formed document over some forest of up to
\* n nodes with attributes from attrs
InitForest(attrs, n) ==
    \E m \in 0..n : \E par \in Shapes(m) : \E lab \in [1..m -> attrs] :
        Call_validate_sbom(WellFormedDoc(BuildForest(par, lab)))

Init == \E doc \in StructDocuments : Call_validate_sbom(doc)
Spec == Init /\ [][validate_sbom]_vars

InitComp == InitForest(CompAttrs, MaxNodes)
SpecComp == InitComp /\ [][validate_sbom]_vars

InitGost == InitForest(GostAttrs, MaxNodes)
SpecGost == InitGost /\ [][validate_sbom]_vars

InitVcs == InitForest(VcsAttrs, MaxVcsNodes)
SpecVcs == InitVcs /\ [][validate_sbom]_vars

-----------------------------------------------------------------------------
(* Direct calls of eval_prop and of the aggregation over a flattened       *)
(* forest, as unify_sboms makes it                                         *)

\* str.upper() on one character (the ASCII letters)
UpperChar(c) ==
    CASE c = "a" -> "A" [] c = "b" -> "B" [] c = "c" -> "C" [] c = "d" -> "D"
      [] c = "e" -> "E" [] c = "f" -> "F" [] c = "g" -> "G" [] c = "h" -> "H"
      [] c = "i" -> "I" [] c = "j" -> "J" [] c = "k" -> "K" [] c = "l" -> "L"
      [] c = "m" -> "M" [] c = "n" -> "N" [] c = "o" -> "O" [] c = "p" -> "P"
      [] c = "q" -> "Q" [] c = "r" -> "R" [] c = "s" -> "S" [] c = "t" -> "T"
      [] c = "u" -> "U" [] c = "v" -> "V" [] c = "w" -> "W" [] c = "x" -> "X"
      [] c = "y" -> "Y" [] c = "z" -> "Z" [] OTHER -> c

\* every way of writing the lower-case word s in upper and lower case
RECURSIVE Casings(_)
Casings(s) ==
    IF Len(s) = 0 THEN {""}
    ELSE {c \o rest : c \in {SubSeq(s, 1, 1), UpperChar(SubSeq(s, 1, 1))},
                      rest \in Casings(SubSeq(s, 2, Len(s)))}

EvalInputs ==
    Casings("yes") \cup Casings("indirect") \cup Casings("no")
    \cup {None, "", "garbage", "high", "y", "ye", "yess", " yes", "yes ", "n0",
          "none", "true", "2", "indirectly", "NO!"}

InitEval ==
    /\ arg \in EvalInputs
    /\ pc = "eval_prop"
    /\ ret = None
    /\ document = <<>>
    /\ issues = <<>>
    /\ response = <<>>
    /\ NoUnifyCall
    /\ NoVcsCall
    /\ NoStoreCall

Call_eval_prop ==
    /\ pc = "eval_prop"
    /\ ret' = eval_prop(arg)
    /\ pc' = "done"
    /\ UNCHANGED <<document, issues, response, arg, unifyVars, storeVars, vcsVars>>

SpecEval == InitEval /\ [][Call_eval_prop]_vars

InitAgg ==
    /\ \E m \in 0..MaxNodes : \E par \in Shapes(m) : \E lab \in [1..m -> GostAttrs] :
          arg = BuildForest(par, lab)
    /\ pc = "aggregate"
    /\ ret = None
    /\ document = <<>>
    /\ issues = <<>>
    /\ response = <<>>
    /\ NoUnifyCall
    /\ NoVcsCall
    /\ NoStoreCall

\* flat = flatten_components(components); _aggregate_gost(flat, prop_name)
Call_aggregate ==
    /\ pc = "aggregate"
    /\ \E prop_name \in {GostProps[1], GostProps[2]} :
          LET flat == flatten_components(arg)
          IN  ret' = [prop_name |-> prop_name, flat |-> flat,
                      value |-> _aggregate_gost(flat, prop_name)]
    /\ pc' = "done"
    /\ UNCHANGED <<document, issues, response, arg, unifyVars, storeVars, vcsVars>>

SpecAgg == InitAgg /\ [][Call_aggregate]_vars

-----------------------------------------------------------------------------
(* The object graph unify_sboms works on.  Every dict and every list is a  *)
(* cell of the heap, named by its address (its index in heap).  A dict     *)
(* cell holds, under the keys RefKeys, the address of the dict or list     *)
(* that is the value, and any other value (a string, a number, a list of   *)
(* strings) itself; a list cell holds the addresses of its elements.       *)

ListKeys == {"components", "properties", "externalReferences", "dependencies"}
DictKeys == {"metadata", "component", "manufacturer"}
RefKeys == ListKeys \cup DictKeys
KeyOrder ==
    <<"metadata", "component", "manufacturer", "properties",
      "externalReferences", "components", "dependencies">>

DictCell(fields) == [kind |-> "dict", fields |-> fields]
ListCell(items) == [kind |-> "list", items |-> items]

\* d[k] = v on a dict
SetKey(d, k, v) == [x \in DOMAIN d \cup {k} |-> IF x = k THEN v ELSE d[x]]

\* json.loads builds the object graph of a parsed JSON value bottom-up: the
\* values of a dict in the order KeyOrder, then the dict; the elements of a
\* list in order, then the list.  Stored after the first `base` cells of the
\* heap, a value of n cells takes the addresses base + 1 .. base + n, its own
\* cell the last of them.
RECURSIVE CellsOfDict(_, _)
RECURSIVE CellsOfItems(_, _, _, _, _)

\* the cells of the list s from its i-th element on, given the cells and the
\* addresses of the elements before
CellsOfItems(s, i, base, items, cells) ==
    IF i > Len(s) THEN Append(cells, ListCell(items))
    ELSE LET sub == CellsOfDict(s[i], base + Len(cells))
         IN  CellsOfItems(s, i + 1, base,
                          Append(items, base + Len(cells) + Len(sub)), cells \o sub)

CellsOfList(s, base) == CellsOfItems(s, 1, base, <<>>, <<>>)

\* the cells of the value of d under the key k
CellsOfField(d, k, base) ==
    IF k \notin DOMAIN d THEN <<>>
    ELSE IF k \in ListKeys THEN CellsOfList(d[k], base)
    ELSE CellsOfDict(d[k], base)

CellsOfDict(d, base) ==
    LET c1 == CellsOfField(d, KeyOrder[1], base)
        c2 == c1 \o CellsOfField(d, KeyOrder[2], base + Len(c1))
        c3 == c2 \o CellsOfField(d, KeyOrder[3], base + Len(c2))
        c4 == c3 \o CellsOfField(d, KeyOrder[4], base + Len(c3))
        c5 == c4 \o CellsOfField(d, KeyOrder[5], base + Len(c4))
        c6 == c5 \o CellsOfField(d, KeyOrder[6], base + Len(c5))
        c7 == c6 \o CellsOfField(d, KeyOrder[7], base + Len(c6))
        upto == <<c1, c2, c3, c4, c5, c6, c7>>
        KeyIndex(k) == CHOOSE n \in 1..Len(KeyOrder) : KeyOrder[n] = k
    IN  Append(c7, DictCell([k \in DOMAIN d |->
                               IF k \in RefKeys THEN base + Len(upto[KeyIndex(k)])
                               ELSE d[k]]))

\* the JSON value of the dict or list at address a
RECURSIVE Deref(_, _)
Deref(h, a) ==
    IF h[a].kind = "list"
    THEN [i \in 1..Len(h[a].items) |-> Deref(h, h[a].items[i])]
    ELSE [k \in DOMAIN h[a].fields |->
            IF k \in RefKeys THEN Deref(h, h[a].fields[k]) ELSE h[a].fields[k]]

\* the addresses of all cells reachable from the cell at address a
RECURSIVE Reach(_, _)
Reach(h, a) ==
    {a} \cup
    (IF h[a].kind = "list"
     THEN UNION {Reach(h, h[a].items[i]) : i \in 1..Len(h[a].items)}
     ELSE UNION {Reach(h, h[a].fields[k]) : k \in DOMAIN h[a].fields \cap RefKeys})

-----------------------------------------------------------------------------
(* converters/sbom_unifier.py: unify_sboms                                 *)

\* str() of a value interpolated into an f-string
Str(v) == IF v = None THEN "None" ELSE v

\* bool() of a string or None
Truthy(v) == v # None /\ v # ""

\* _set_gost_prop on the list at address properties; the result is the heap
\* after the call (the call returns the list it was given)
_set_gost_prop(h, properties, prop_name, value) ==
    IF value = None THEN h
    ELSE LET full_name == GOST_PREFIX \o prop_name
             items == h[properties].items
             found == {i \in 1..Len(items) :
                          Get(h[items[i]].fields, "name", None) = full_name}
         IN  IF found # {}
             THEN LET i == CHOOSE x \in found : \A y \in found : x <= y
                  IN  [h EXCEPT ![items[i]] =
                          DictCell(SetKey(h[items[i]].fields, "value", value))]
             ELSE LET prop == Len(h) + 1
                  IN  [Append(h, DictCell([name |-> full_name, value |-> value]))
                          EXCEPT ![properties] = ListCell(Append(items, prop))]

\* lines 90-92: the aggregated properties, set in the order of the loop
RECURSIVE SetAggregated(_, _, _, _)
SetAggregated(h, properties, flat, prop_names) ==
    IF prop_names = <<>> THEN h
    ELSE SetAggregated(
             _set_gost_prop(h, properties, Head(prop_names),
                            _aggregate_gost(flat, Head(prop_names))),
             properties, flat, Tail(prop_names))

\* lines 95-98: the properties copied from the metadata component
RECURSIVE CopyFromMeta(_, _, _, _)
CopyFromMeta(h, properties, meta_component, prop_names) ==
    IF prop_names = <<>> THEN h
    ELSE LET val == IF DOMAIN meta_component # {}
                    THEN get_gost_prop(meta_component, Head(prop_names))
                    ELSE None
         IN  CopyFromMeta(
                 IF Truthy(val)
                 THEN _set_gost_prop(h, properties, Head(prop_names), val)
                 ELSE h,
                 properties, meta_component, Tail(prop_names))

\* lines 116-117 with the new entries put in front
MergeDependencies_prepend(h, all_deps, dependencies) ==
    [heap |-> [h EXCEPT ![all_deps] =
                  ListCell(h[dependencies].items \o h[all_deps].items)],
     ref |-> all_deps]

\* lines 116-117 with the first non-empty list adopted as all_dependencies
\* instead of being copied
MergeDependencies_adopt_first(h, all_deps, dependencies) ==
    IF h[all_deps].items = <<>>
    THEN [heap |-> h, ref |-> dependencies]
    ELSE [heap |-> [h EXCEPT ![all_deps] =
                       ListCell(h[all_deps].items \o h[dependencies].items)],
          ref |-> all_deps]

\* lines 116-117: all_dependencies.extend(dependencies)
MergeDependencies(h, all_deps, dependencies) ==
    [heap |-> [h EXCEPT ![all_deps] =
                  ListCell(h[all_deps].items \o h[dependencies].items)],
     ref |-> all_deps]

\* line 83 with the metadata component's bom-ref used whenever the key is there
WrapperBomRef_if_present(meta_component, comp_name, comp_version) ==
    IF Has(meta_component, "bom-ref")
    THEN meta_component["bom-ref"]
    ELSE "unified-" \o Str(comp_name) \o "-" \o Str(comp_version)

\* line 83: the wrapper's bom-ref
WrapperBomRef(meta_component, comp_name, comp_version) ==
    IF Truthy(Get(meta_component, "bom-ref", None))
    THEN meta_component["bom-ref"]
    ELSE "unified-" \o Str(comp_name) \o "-" \o Str(comp_version)

\* lines 100-111: the wrapper dict
Wrapper(comp_name, bom_ref, components, comp_version, comp_group, properties, h) ==
    ("bom-ref" :> bom_ref)
    @@ [type |-> "application", name |-> comp_name, components |-> components]
    @@ (IF Truthy(comp_version) THEN [version |-> comp_version] ELSE <<>>)
    @@ (IF Truthy(comp_group) THEN [group |-> comp_group] ELSE <<>>)
    @@ (IF h[properties].items # <<>> THEN [properties |-> properties] ELSE <<>>)

\* lines 73-117: one iteration of the loop over documents
UnifyDocument ==
    /\ pc = "unify_loop"
    /\ doc_index <= Len(arg.documents)
    /\ LET doc == heap[arg.documents[doc_index]].fields
           \* line 74: without the key, components is a new empty list
           h1 == IF Has(doc, "components") THEN heap
                 ELSE Append(heap, ListCell(<<>>))
           components == IF Has(doc, "components") THEN doc["components"]
                         ELSE Len(h1)
           has_dependencies ==
               Has(doc, "dependencies") /\ heap[doc["dependencies"]].items # <<>>
           metadata == IF Has(doc, "metadata") THEN Deref(heap, doc["metadata"])
                       ELSE <<>>
           meta_component == Get(metadata, "component", <<>>)
           comp_name == Get(meta_component, "name", "Unknown")
           comp_version == Get(meta_component, "version", "")
           comp_group == Get(meta_component, "group", None)
           bom_ref == WrapperBomRef(meta_component, comp_name, comp_version)
           flat == flatten_components(Deref(h1, components))
           h2 == Append(h1, ListCell(<<>>))
           properties == Len(h2)
           h3 == SetAggregated(h2, properties, flat,
                               <<"attack_surface", "security_function">>)
           h4 == CopyFromMeta(h3, properties, meta_component,
                              <<"provided_by", "source_langs">>)
           h5 == Append(h4, DictCell(Wrapper(comp_name, bom_ref, components,
                                             comp_version, comp_group, properties, h4)))
           wrapper == Len(h5)
           h6 == [h5 EXCEPT ![unified_components] =
                     ListCell(Append(h5[unified_components].items, wrapper))]
           merged == IF has_dependencies
                     THEN MergeDependencies(h6, all_dependencies, doc["dependencies"])
                     ELSE [heap |-> h6, ref |-> all_dependencies]
       IN  /\ heap' = merged.heap
           /\ all_dependencies' = merged.ref
           /\ total_flat_count' = total_flat_count + Len(flat)
    /\ doc_index' = doc_index + 1
    /\ UNCHANGED <<document, pc, issues, response, arg, ret, unified_components, vcsVars, storeVars>>

\* the response with the wrappers left out of the count
UnifyResponse_flat_only(unified_bom, flat_count, wrappers, documents) ==
    [bom |-> unified_bom,
     components_count |-> flat_count,
     sources_count |-> Len(documents)]

\* lines 151-155: the response
UnifyResponse(unified_bom, flat_count, wrappers, documents) ==
    [bom |-> unified_bom,
     components_count |-> flat_count + Len(wrappers),
     sources_count |-> Len(documents)]

\* uuid.uuid4() yields some value the caller cannot predict
Uuids == {"00000000-0000-4000-8000-000000000001", "00000000-0000-4000-8000-000000000002"}

\* lines 119-155: the unified BOM and the response
UnifyBuild ==
    /\ pc = "unify_loop"
    /\ doc_index > Len(arg.documents)
    /\ \E uuid \in Uuids :
       LET now == "<now>"
           app_bom_ref == "unified-" \o arg.app_name \o "-" \o arg.app_version
           h1 == Append(heap, DictCell(
                     ("bom-ref" :> app_bom_ref)
                     @@ [type |-> "application", name |-> arg.app_name,
                         version |-> arg.app_version]))
           h2 == Append(h1, DictCell([timestamp |-> now, component |-> Len(h1)]))
           metadata == Len(h2)
           h3 == Append(h2, DictCell(
                     [bomFormat |-> "CycloneDX", specVersion |-> "1.6",
                      serialNumber |-> "urn:uuid:" \o uuid, version |-> 1,
                      metadata |-> metadata, components |-> unified_components]))
           unified_bom == Len(h3)
           h4 == IF Truthy(arg.manufacturer)
                 THEN [Append(h3, DictCell([name |-> arg.manufacturer]))
                          EXCEPT ![metadata] =
                              DictCell(SetKey(h3[metadata].fields, "manufacturer",
                                              Len(h3) + 1))]
                 ELSE h3
           wrappers == heap[unified_components].items
           h5 == IF heap[all_dependencies].items # <<>>
                 THEN LET top_dep == Len(h4) + 1
                          g1 == Append(h4, DictCell(
                                    [ref |-> app_bom_ref,
                                     dependsOn |-> [i \in 1..Len(wrappers) |->
                                                      heap[wrappers[i]].fields["bom-ref"]]]))
                          g2 == Append(g1, ListCell(<<top_dep>>
                                                    \o heap[all_dependencies].items))
                      IN  [g2 EXCEPT ![unified_bom] =
                              DictCell(SetKey(g2[unified_bom].fields, "dependencies",
                                              Len(g2)))]
                 ELSE h4
       IN  /\ heap' = h5
           /\ ret' = UnifyResponse(unified_bom, total_flat_count, wrappers,
                                    arg.documents)
    /\ pc' = "done"
    /\ UNCHANGED <<document, issues, response, arg, unified_components,
                   all_dependencies, total_flat_count, doc_index, vcsVars, storeVars>>

unify_sboms ==
    \/ UnifyDocument
    \/ UnifyBuild

-----------------------------------------------------------------------------
(* Calls of unify_sboms.  The documents are parsed separately, so that no  *)
(* two of them share a cell, except that the first document may be passed  *)
(* a second time.                                                          *)

MaxDocs == 2
MaxUnifyNodes == 2

Dep(ref, dependsOn) == [ref |-> ref, dependsOn |-> dependsOn]

FullMetaComponent ==
    ("bom-ref" :> "svc-ref")
    @@ [type |-> "application", name |-> "svc", version |-> "1.0", group |-> "org",
        properties |-> <<Prop("cdx:gost:provided_by", "vendor"),
                         Prop("cdx:gost:attack_surface", "yes")>>]

\* what a document holds besides its components: nothing; a full metadata
\* component and a dependency; a metadata component with a name only and two
\* dependencies; a metadata component with an empty bom-ref and an empty
\* list of dependencies
DocFrames ==
    { <<>>,
      [metadata |-> [timestamp |-> "2024-01-01T00:00:00Z", component |-> FullMetaComponent],
       dependencies |-> <<Dep("svc-ref", <<"lib-a">>)>>],
      [metadata |-> [component |-> [name |-> "web"]],
       dependencies |-> <<Dep("web", <<"lib-b", "lib-c">>), Dep("lib-b", <<>>)>>],
      [metadata |-> [component |-> ("bom-ref" :> "")
                                   @@ [name |-> "db", version |-> "2.0",
                                       properties |-> <<Prop("cdx:gost:source_langs", "go"),
                                                        Prop("cdx:gost:provided_by", "")>>]],
       dependencies |-> <<>>] }

UnifyAttrs ==
    { [type |-> "library", name |-> "n", version |-> "1.0",
       properties |-> <<Prop("cdx:gost:attack_surface", "indirect")>>] }

\* documents for the aggregation: without metadata, and with a metadata
\* component that has GOST properties of its own
GostDocFrames ==
    { <<>>, [metadata |-> [component |-> FullMetaComponent]] }

\* components for the aggregation: both properties, one of them in upper
\* case, an unrecognized value
UnifyGostAttrs ==
    { [type |-> "library", name |-> "n",
       properties |-> <<Prop("cdx:gost:attack_surface", "no"),
                        Prop("cdx:gost:security_function", "Yes")>>],
      [type |-> "library", name |-> "n",
       properties |-> <<Prop("cdx:gost:attack_surface", "YES")>>],
      [type |-> "library", name |-> "n",
       properties |-> <<Prop("cdx:gost:attack_surface", "high"),
                        Prop("cdx:gost:security_function", "indirect")>>] }

AppArgs ==
    { [app_name |-> "App", app_version |-> "1.0", manufacturer |-> "Corp"],
      [app_name |-> "App", app_version |-> "", manufacturer |-> ""] }

\* json.loads of each uploaded file, in order: the heap, and the addresses of
\* the documents as its last cell
StoreAll(docs) == CellsOfList(docs, 0)

\* unify_sboms called on the parsed documents; lines 69-71 have run
Call_unify_sboms(docs, twice, app) ==
    LET st == StoreAll(docs)
        parsed == SubSeq(st, 1, Len(st) - 1)
        refs == st[Len(st)].items
    IN  /\ heap = parsed \o <<ListCell(<<>>), ListCell(<<>>)>>
        /\ unified_components = Len(parsed) + 1
        /\ all_dependencies = Len(parsed) + 2
        /\ total_flat_count = 0
        /\ doc_index = 1
        /\ arg = [documents |-> IF twice THEN Append(refs, refs[1]) ELSE refs,
                  app_name |-> app.app_name, app_version |-> app.app_version,
                  manufacturer |-> app.manufacturer]
        /\ ret = None
        /\ pc = "unify_loop"
        /\ document = <<>>
        /\ issues = <<>>
        /\ response = <<>>
        /\ NoVcsCall
        /\ NoStoreCall

\* the first n documents: what frm gives, with the components the forest gives
RECURSIVE Documents(_, _, _)
Documents(frm, forest, n) ==
    IF n = 0 THEN <<>>
    ELSE Append(Documents(frm, forest, n - 1), frm[n] @@ forest[n])

\* the documents are the top-level nodes of a forest, their components the
\* nodes below: up to MaxDocs documents with up to MaxUnifyNodes components
\* in all
InitUnifyOver(attrs, frames, apps, repeat) ==
    \E m \in 0..(MaxDocs + MaxUnifyNodes) : \E par \in Shapes(m) :
        LET top == {v \in 1..m : par[v] = 0}
            n == Cardinality(top)
        IN  /\ n <= MaxDocs
            /\ m - n <= MaxUnifyNodes
            /\ \E lab \in [(1..m) \ top -> attrs] : \E frm \in [1..n -> frames] :
               \E twice \in repeat : \E app \in apps :
                  /\ twice => (n >= 1 /\ n < MaxDocs)
                  /\ LET forest == BuildForest(par,
                                       [v \in 1..m |-> IF v \in top THEN <<>> ELSE lab[v]])
                     IN  Call_unify_sboms(Documents(frm, forest, n), twice, app)

InitUnify == InitUnifyOver(UnifyAttrs, DocFrames, AppArgs, BOOLEAN)
SpecUnify == InitUnify /\ [][unify_sboms]_vars

\* either entry point, for what it leaves alone
InitFrame ==
    \/ InitUnify
    \/ \E doc \in {WellFormedDoc(ScenarioForest), WellFormedDoc(MixedForest)} :
          Call_validate_sbom(doc)
SpecFrame == InitFrame /\ [][validate_sbom \/ unify_sboms]_vars

InitUnifyGost ==
    InitUnifyOver(UnifyGostAttrs, GostDocFrames, {[app_name |-> "App", app_version |-> "1.0", manufacturer |-> "Corp"]}, {FALSE})
SpecUnifyGost == InitUnifyGost /\ [][unify_sboms]_vars

-----------------------------------------------------------------------------
(* converters/sbom_validator.py: _is_safe_url, on the characters of the    *)
(* URL. urlparse and ipaddress.ip_address are the standard library's,      *)
(* followed here for ASCII input.                                          *)

Ch(s, i) == SubSeq(s, i, i)

Digits == {"0", "1", "2", "3", "4", "5", "6", "7", "8", "9"}
HexDigits == Digits \cup {"a", "b", "c", "d", "e", "f", "A", "B", "C", "D", "E", "F"}
AsciiLower ==
    {"a", "b", "c", "d", "e", "f", "g", "h", "i", "j", "k", "l", "m",
     "n", "o", "p", "q", "r", "s", "t", "u", "v", "w", "x", "y", "z"}
AsciiLetters == {c \in AsciiLower \cup {"A", "B", "C", "D", "E", "F", "G", "H", "I", "J",
                     "K", "L", "M", "N", "O", "P", "Q", "R", "S", "T", "U", "V", "W",
                     "X", "Y", "Z"} : TRUE}
scheme_chars == AsciiLetters \cup Digits \cup {"+", "-", "."}

\* every character of s is one of chars
AllIn(s, chars) == \A i \in 1..Len(s) : Ch(s, i) \in chars

\* str.find(c, start) for one character, positions counted from 1; 0: absent
RECURSIVE Find(_, _, _)
Find(s, c, i) ==
    IF i > Len(s) THEN 0 ELSE IF Ch(s, i) = c THEN i ELSE Find(s, c, i + 1)

\* str.rfind(c) for one character, searching down from position i
RECURSIVE RFind(_, _, _)
RFind(s, c, i) ==
    IF i < 1 THEN 0 ELSE IF Ch(s, i) = c THEN i ELSE RFind(s, c, i - 1)

\* sub in s
Contains(s, sub) ==
    \E i \in 1..(Len(s) - Len(sub) + 1) : SubSeq(s, i, i + Len(sub) - 1) = sub

\* s[i:] and s[:i], positions counted from 1
From(s, i) == SubSeq(s, i, Len(s))
Upto(s, i) == SubSeq(s, 1, i)

\* str.split(c) for one character
RECURSIVE Split(_, _)
Split(s, c) ==
    LET i == Find(s, c, 1)
    IN  IF i = 0 THEN <<s>> ELSE <<Upto(s, i - 1)>> \o Split(From(s, i + 1), c)

\* int(s, 10) for a string of decimal digits
DigitValue(c) ==
    CASE c = "0" -> 0 [] c = "1" -> 1 [] c = "2" -> 2 [] c = "3" -> 3 [] c = "4" -> 4
      [] c = "5" -> 5 [] c = "6" -> 6 [] c = "7" -> 7 [] c = "8" -> 8 [] c = "9" -> 9

RECURSIVE IntOf(_)
IntOf(s) ==
    IF s = "" THEN 0 ELSE 10 * IntOf(Upto(s, Len(s) - 1)) + DigitValue(Ch(s, Len(s)))

\* urlsplit: the scheme (lowercased) when the text before the first ':' is
\* one, the netloc after "//" up to the first of "/?#"; raises ValueError
\* (ok = FALSE) on an unmatched bracket in the netloc
urlparse(url) ==
    LET i == Find(url, ":", 1)
        hasScheme == /\ i > 1
                     /\ Ch(url, 1) \in AsciiLetters
                     /\ AllIn(Upto(url, i - 1), scheme_chars)
        scheme == IF hasScheme THEN Lower(Upto(url, i - 1)) ELSE ""
        rest == IF hasScheme THEN From(url, i + 1) ELSE url
        hasNetloc == Len(rest) >= 2 /\ Upto(rest, 2) = "//"
        delims == {Find(rest, c, 3) : c \in {"/", "?", "#"}} \ {0}
        delim == IF delims = {} THEN Len(rest) + 1
                 ELSE CHOOSE x \in delims : \A y \in delims : x <= y
        netloc == IF hasNetloc THEN SubSeq(rest, 3, delim - 1) ELSE ""
    IN  [ok |-> Contains(netloc, "[") = Contains(netloc, "]"),
         scheme |-> scheme,
         netloc |-> netloc]

\* SplitResult.hostname: after the userinfo, inside the brackets or before
\* the port, lowercased up to a '%'; None when empty
hostname(netloc) ==
    LET hostinfo == From(netloc, RFind(netloc, "@", Len(netloc)) + 1)
        ob == Find(hostinfo, "[", 1)
        bracketed == From(hostinfo, ob + 1)
        cb == Find(bracketed, "]", 1)
        colon == Find(hostinfo, ":", 1)
        host == IF ob > 0
                THEN (IF cb = 0 THEN bracketed ELSE Upto(bracketed, cb - 1))
                ELSE (IF colon = 0 THEN hostinfo ELSE Upto(hostinfo, colon - 1))
        pct == Find(host, "%", 1)
    IN  IF host = "" THEN None
        ELSE IF pct = 0 THEN Lower(host)
        ELSE Lower(Upto(host, pct - 1)) \o From(host, pct)

\* IPv4Address._parse_octet succeeds
ParsesAsOctet(octet_str) ==
    /\ octet_str # ""
    /\ AllIn(octet_str, Digits)
    /\ Len(octet_str) <= 3
    /\ ~(octet_str # "0" /\ Ch(octet_str, 1) = "0")
    /\ IntOf(octet_str) <= 255

\* IPv4Address(ip_str) succeeds
ParsesAsIPv4(ip_str) ==
    /\ ip_str # ""
    /\ LET octets == Split(ip_str, ".")
       IN  Len(octets) = 4 /\ \A k \in 1..4 : ParsesAsOctet(octets[k])

\* IPv6Address._parse_hextet succeeds
ParsesAsHextet(hextet_str) == AllIn(hextet_str, HexDigits) /\ Len(hextet_str) <= 4

\* IPv6Address(ip_str) succeeds: an optional %scope, then
\* _ip_int_from_string on the address
ParsesAsIPv6(ip_str) ==
    LET pct == Find(ip_str, "%", 1)
        addr == IF pct = 0 THEN ip_str ELSE Upto(ip_str, pct - 1)
        scope_id == IF pct = 0 THEN "" ELSE From(ip_str, pct + 1)
        split == Split(addr, ":")
        last == split[Len(split)]
        embedded == Contains(last, ".")
        \* an embedded IPv4 address stands for two hextets
        parts == IF embedded THEN SubSeq(split, 1, Len(split) - 1) \o <<"0", "0">>
                 ELSE split
        n == Len(parts)
        skips == {i \in 2..(n - 1) : parts[i] = ""}
        skip_index == CHOOSE i \in skips : TRUE
        hi0 == skip_index - 1
        lo0 == n - skip_index
        parts_hi == IF parts[1] = "" THEN hi0 - 1 ELSE hi0
        parts_lo == IF parts[n] = "" THEN lo0 - 1 ELSE lo0
    IN  /\ pct # 0 => (scope_id # "" /\ ~Contains(scope_id, "%"))
        /\ addr # ""
        /\ Len(split) >= 3
        /\ embedded => ParsesAsIPv4(last)
        /\ n <= 9
        /\ Cardinality(skips) <= 1
        /\ IF skips # {}
           THEN /\ parts[1] = "" => parts_hi = 0
                /\ parts[n] = "" => parts_lo = 0
                /\ 8 - (parts_hi + parts_lo) >= 1
                /\ \A i \in 1..parts_hi : ParsesAsHextet(parts[i])
                /\ \A i \in (n - parts_lo + 1)..n : ParsesAsHextet(parts[i])
           ELSE /\ n = 8
                /\ parts[1] # ""
                /\ parts[n] # ""
                /\ \A i \in 1..n : ParsesAsHextet(parts[i])

\* ipaddress.ip_address accepting IPv4 addresses only
ip_address_v4_only(address) == ParsesAsIPv4(address)

\* ipaddress.ip_address(address) returns instead of raising ValueError
ip_address(address) == ParsesAsIPv4(address) \/ ParsesAsIPv6(address)

\* re.match(r"^(\d{1,3}\.){3}\d{1,3}$", hostname)
DottedQuadShaped(h) ==
    LET groups == Split(h, ".")
    IN  /\ Len(groups) = 4
        /\ \A k \in 1..4 : Len(groups[k]) \in 1..3 /\ AllIn(groups[k], Digits)

LocalHostnames == {"localhost", "127.0.0.1", "0.0.0.0", "::1"}

_is_safe_url(url) ==
    LET parsed == urlparse(url)
        h == hostname(parsed.netloc)
    IN  /\ parsed.ok
        /\ parsed.scheme = "https"
        /\ h # None
        /\ h \notin LocalHostnames
        /\ ~ip_address(h)
        /\ ~DottedQuadShaped(h)

\* the URLs _is_safe_url is called on, each built from its parts: what stands
\* before the authority, the userinfo, the host, the port and the path. kind
\* says what the host is: an ordinary name, one of the four local names, an
\* IPv4 or IPv6 address, a dotted quad that is no address, or nothing (not
\* after a lone "https:" or "https:/", where the path would become the host)
UrlPrefixes == {"https://", "HTTPS://", "http://", "file://", "ftp://", "//", "",
                "https:/", "https:"}

UrlHosts ==
    {[text |-> "github.com", host |-> "github.com", kind |-> "name"],
     [text |-> "GitHub.com", host |-> "github.com", kind |-> "name"],
     [text |-> "example.com.", host |-> "example.com.", kind |-> "name"],
     [text |-> "git.example.org", host |-> "git.example.org", kind |-> "name"],
     [text |-> "1.2.3.4.5", host |-> "1.2.3.4.5", kind |-> "name"],
     [text |-> "localhost", host |-> "localhost", kind |-> "local"],
     [text |-> "LOCALHOST", host |-> "localhost", kind |-> "local"],
     [text |-> "127.0.0.1", host |-> "127.0.0.1", kind |-> "local"],
     [text |-> "0.0.0.0", host |-> "0.0.0.0", kind |-> "local"],
     [text |-> "[::1]", host |-> "::1", kind |-> "local"],
     [text |-> "8.8.8.8", host |-> "8.8.8.8", kind |-> "ipv4"],
     [text |-> "10.0.0.1", host |-> "10.0.0.1", kind |-> "ipv4"],
     [text |-> "169.254.169.254", host |-> "169.254.169.254", kind |-> "ipv4"],
     [text |-> "[2001:db8::1]", host |-> "2001:db8::1", kind |-> "ipv6"],
     [text |-> "[::ffff:10.0.0.1]", host |-> "::ffff:10.0.0.1", kind |-> "ipv6"],
     [text |-> "[fe80::1%25eth0]", host |-> "fe80::1%25eth0", kind |-> "ipv6"],
     [text |-> "[FE80:0:0:0:0:0:0:1]", host |-> "fe80:0:0:0:0:0:0:1", kind |-> "ipv6"],
     [text |-> "999.1.1.1", host |-> "999.1.1.1", kind |-> "quad"],
     [text |-> "127.0.0.01", host |-> "127.0.0.01", kind |-> "quad"],
     [text |-> "", host |-> "", kind |-> "empty"]}

UrlCases ==
    {c \in {[url |-> pre \o ui \o h.text \o port \o path, prefix |-> pre,
             host |-> h.host, kind |-> h.kind] :
               pre \in UrlPrefixes, ui \in {"", "user@", "user:pw@"}, h \in UrlHosts,
               port \in {"", ":8443"}, path \in {"", "/", "/org/repo.git"}} :
        c.prefix \in {"https:/", "https:"} => c.kind # "empty"}

Call_is_safe_url(url) ==
    /\ document = <<>>
    /\ pc = "is_safe_url"
    /\ issues = <<>>
    /\ response = <<>>
    /\ arg = url
    /\ ret = None
    /\ NoUnifyCall
    /\ NoVcsCall
    /\ NoStoreCall

Return_is_safe_url ==
    /\ pc = "is_safe_url"
    /\ ret' = _is_safe_url(arg)
    /\ pc' = "done"
    /\ UNCHANGED <<document, issues, response, arg, unifyVars, storeVars, vcsVars>>

InitSafeUrl == \E c \in UrlCases : Call_is_safe_url(c.url)
SpecSafeUrl == InitSafeUrl /\ [][Return_is_safe_url]_vars

-----------------------------------------------------------------------------
(* converters/sbom_validator.py: validate_vcs_accessibility, as main.py's  *)
(* sbom_validate calls it after validate_sbom. The probes handed to        *)
(* asyncio.gather advance one at a time in any order.                      *)

\* url.rstrip("/")
RECURSIVE RStripSlash(_)
RStripSlash(url) ==
    IF url # "" /\ Ch(url, Len(url)) = "/" THEN RStripSlash(Upto(url, Len(url) - 1))
    ELSE url

_normalize_vcs_url(url) ==
    LET stripped == RStripSlash(url)
    IN  IF Len(stripped) >= 4 /\ From(stripped, Len(stripped) - 3) = ".git"
        THEN Upto(stripped, Len(stripped) - 4)
        ELSE stripped

\* f"{normalized}.git/info/refs?service=git-upload-pack"
CheckUrl(url) == _normalize_vcs_url(url) \o ".git/info/refs?service=git-upload-pack"

\* the (url, path, comp_name) tuples of _collect_vcs_urls
VcsEntry(url, path, name) == [url |-> url, path |-> path, name |-> name]

\* the entries of one component's externalReferences, from the k-th on
RECURSIVE CollectRefs(_, _, _, _)
CollectRefs(external_refs, k, path, comp_name) ==
    IF k > Len(external_refs) THEN <<>>
    ELSE LET ref == external_refs[k]
         IN  (IF Get(ref, "type", None) = "vcs" /\ TruthyStr(ref, "url")
              THEN <<VcsEntry(ref.url, path, comp_name)>>
              ELSE <<>>)
             \o CollectRefs(external_refs, k + 1, path, comp_name)

\* _collect_vcs_urls, from the i-th component on
RECURSIVE CollectLoop(_, _, _)
CollectLoop(components, i, base_path) ==
    IF i > Len(components) THEN <<>>
    ELSE LET comp == components[i]
             path == IndexPath(base_path, i)
             children == ChildrenOf(comp)
         IN  CollectRefs(Get(comp, "externalReferences", <<>>), 1, path,
                         Get(comp, "name", "?"))
             \o (IF children # <<>> THEN CollectLoop(children, 1, path \o ".components")
                 ELSE <<>>)
             \o CollectLoop(components, i + 1, base_path)

_collect_vcs_urls(components) == CollectLoop(components, 1, "$.components")

\* the loop over vcs_entries: one warning per entry _is_safe_url rejects
RECURSIVE SkippedIssues(_, _)
SkippedIssues(vcs_entries, k) ==
    IF k > Len(vcs_entries) THEN <<>>
    ELSE LET e == vcs_entries[k]
         IN  (IF ~_is_safe_url(e.url)
              THEN <<ValidationIssue("warning", <<"VCS URL skipped", e.name, e.url>>,
                                     e.path)>>
              ELSE <<>>)
             \o SkippedIssues(vcs_entries, k + 1)

\* the entries without the filter
SafeEntries_unfiltered(vcs_entries, k) == vcs_entries

\* the accepted entries, each URL once: an entry is left out when its URL
\* stands in an earlier entry
RECURSIVE SafeEntries_distinct(_, _)
SafeEntries_distinct(vcs_entries, k) ==
    IF k > Len(vcs_entries) THEN <<>>
    ELSE (IF /\ _is_safe_url(vcs_entries[k].url)
             /\ \A j \in 1..(k - 1) : vcs_entries[j].url # vcs_entries[k].url
          THEN <<vcs_entries[k]>> ELSE <<>>)
         \o SafeEntries_distinct(vcs_entries, k + 1)

\* ... and the entries it accepts
RECURSIVE SafeEntries(_, _)
SafeEntries(vcs_entries, k) ==
    IF k > Len(vcs_entries) THEN <<>>
    ELSE (IF _is_safe_url(vcs_entries[k].url) THEN <<vcs_entries[k]>> ELSE <<>>)
         \o SafeEntries(vcs_entries, k + 1)

\* lines 442-466: collect, filter, and the three early returns
CollectAndFilter ==
    /\ pc = "done"
    /\ response # <<>>
    /\ client = "none"
    /\ LET components == Get(document, "components", <<>>)
           vcs_entries == IF components = <<>> THEN <<>>
                          ELSE _collect_vcs_urls(components)
       IN  /\ vcs_issues' = SkippedIssues(vcs_entries, 1)
           /\ safe_entries' = SafeEntries(vcs_entries, 1)
           /\ pc' = IF SafeEntries(vcs_entries, 1) = <<>> THEN "vcs_return"
                    ELSE "vcs_client"
    /\ UNCHANGED <<document, issues, response, arg, ret, unifyVars, storeVars, client, tasks,
                   requests>>

\* how a coroutine ends: with a returned value, or with an exception
Returns(value) == [kind |-> "returned", value |-> value]
Raises(class) == [kind |-> "raised", class |-> class]
Pending == [kind |-> "pending"]

\* a coroutine _check_single_vcs(client, url, path, name) not yet started
Task(entry) == [state |-> "created", entry |-> entry, resp |-> Pending, result |-> Pending]

\* lines 468-476: the client is entered and one coroutine made per safe entry
OpenClient ==
    /\ pc = "vcs_client"
    /\ client' = "open"
    /\ tasks' = [p \in 1..Len(safe_entries) |-> Task(safe_entries[p])]
    /\ pc' = "vcs_gather"
    /\ UNCHANGED <<document, issues, response, arg, ret, unifyVars, storeVars, vcs_issues,
                   safe_entries, requests>>

\* _check_single_vcs up to `await client.get(check_url)`: the GET is sent
ProbeSend(p) ==
    /\ pc = "vcs_gather"
    /\ p \in DOMAIN tasks
    /\ tasks[p].state = "created"
    /\ requests' = Append(requests, [probe |-> p, url |-> CheckUrl(tasks[p].entry.url)])
    /\ tasks' = [tasks EXCEPT ![p].state = "awaiting"]
    /\ UNCHANGED <<document, pc, issues, response, arg, ret, unifyVars, storeVars, vcs_issues,
                   safe_entries, client>>

\* what the awaited GET comes back with: a response, or an exception of one
\* of httpx's classes
GitMarker == "application/x-git-upload-pack-advertisement"

Response(status_code, headers) ==
    [kind |-> "response", status_code |-> status_code, headers |-> headers]

Raised(class) == [kind |-> "exception", class |-> class]

Outcomes ==
    {Response(200, [content_type |-> GitMarker \o "; charset=utf-8"]),
     Response(200, [content_type |-> "Application/X-Git-Upload-Pack-Advertisement"]),
     Response(200, <<>>),
     Response(404, [content_type |-> GitMarker]),
     Raised("ReadTimeout"), Raised("ConnectError"), Raised("TooManyRedirects")}

\* isinstance(exc, class) over the classes above
IsInstance(class, base) ==
    \/ base = "Exception"
    \/ base = class
    \/ base = "TimeoutException" /\ class \in {"ConnectTimeout", "ReadTimeout", "PoolTimeout"}

\* the except clauses of _check_single_vcs, in order, without the last
ExceptClauses_no_catch_all ==
    <<[class |-> "TimeoutException", text |-> "VCS check timed out"],
      [class |-> "ConnectError", text |-> "VCS connection failed"]>>

\* the except clauses of _check_single_vcs, in order
ExceptClauses ==
    <<[class |-> "TimeoutException", text |-> "VCS check timed out"],
      [class |-> "ConnectError", text |-> "VCS connection failed"],
      [class |-> "Exception", text |-> "VCS check failed"]>>

\* the test on the response, comparing the content type for equality
IsGitAdvertisement_exact(resp) ==
    /\ resp.status_code = 200
    /\ Get(resp.headers, "content_type", "") = GitMarker

\* resp.status_code == 200 and marker in resp.headers.get("content-type", "")
IsGitAdvertisement(resp) ==
    /\ resp.status_code = 200
    /\ Contains(Get(resp.headers, "content_type", ""), GitMarker)

\* how _check_single_vcs ends for an outcome of the GET; it raises when no
\* except clause takes the exception
_check_single_vcs(entry, outcome) ==
    IF outcome.kind = "response"
    THEN IF IsGitAdvertisement(outcome)
         THEN Returns(ValidationIssue("info",
                                      <<"VCS repository accessible", entry.name, entry.url>>,
                                      entry.path))
         ELSE Returns(ValidationIssue("warning",
                                      <<"VCS repository unavailable", entry.name,
                                        entry.url, outcome.status_code>>,
                                      entry.path))
    ELSE LET taking == {k \in DOMAIN ExceptClauses :
                           IsInstance(outcome.class, ExceptClauses[k].class)}
         IN  IF taking = {} THEN Raises(outcome.class)
             ELSE LET k == CHOOSE x \in taking : \A y \in taking : x <= y
                  IN  Returns(ValidationIssue("warning",
                                              <<ExceptClauses[k].text, entry.name,
                                                entry.url>>,
                                              entry.path))

\* the probes awaited one after the other: a GET comes back to its coroutine
\* only when the probes before it have finished
Awaited_in_turn(ts, p) ==
    ts[p].state = "awaiting" /\ \A q \in 1..(p - 1) : ts[q].state = "done"

\* the coroutine of probe p is suspended in `await client.get(check_url)`
Awaited(ts, p) == ts[p].state = "awaiting"

\* the awaited GET of probe p comes back and the coroutine runs to its end
ProbeComplete(p, outcome) ==
    /\ pc = "vcs_gather"
    /\ p \in DOMAIN tasks
    /\ Awaited(tasks, p)
    /\ tasks' = [tasks EXCEPT ![p] =
                    [state |-> "done", entry |-> @.entry, resp |-> outcome,
                     result |-> _check_single_vcs(@.entry, outcome)]]
    /\ UNCHANGED <<document, pc, issues, response, arg, ret, unifyVars, storeVars, vcs_issues,
                   safe_entries, client, requests>>

\* asyncio.gather(*tasks) resumes its caller: every awaitable has a result,
\* or one of them has raised
GatherReady(ts) ==
    \/ \A p \in DOMAIN ts : ts[p].state = "done"
    \/ \E p \in DOMAIN ts : ts[p].state = "done" /\ ts[p].result.kind = "raised"

\* lines 477-480: the results in the order of the tasks; an exception of a
\* probe leaves through the `async with` and the caller
Gather ==
    /\ pc = "vcs_gather"
    /\ GatherReady(tasks)
    /\ client' = "closed"
    /\ IF \E p \in DOMAIN tasks : tasks[p].state = "done" /\ tasks[p].result.kind = "raised"
       THEN pc' = "raised" /\ UNCHANGED vcs_issues
       ELSE /\ vcs_issues' = vcs_issues \o [p \in DOMAIN tasks |-> tasks[p].result.value]
            /\ pc' = "vcs_return"
    /\ UNCHANGED <<document, issues, response, arg, ret, unifyVars, storeVars, safe_entries, tasks,
                   requests>>

validate_vcs_accessibility ==
    \/ CollectAndFilter
    \/ OpenClient
    \/ \E p \in DOMAIN tasks : ProbeSend(p)
    \/ \E p \in DOMAIN tasks : \E outcome \in Outcomes : ProbeComplete(p, outcome)
    \/ Gather

\* main.py: base_result.issues.extend(vcs_issues); return base_result
MergeVcsIssues ==
    /\ pc = "vcs_return"
    /\ response' = [response EXCEPT !.issues = @ \o vcs_issues]
    /\ pc' = "responded"
    /\ UNCHANGED <<document, issues, arg, ret, unifyVars, storeVars, vcsVars>>

sbom_validate == validate_sbom \/ validate_vcs_accessibility \/ MergeVcsIssues

\* components varying in their external references: none; one reference the
\* guard rejects beside one it accepts; only references that are rejected or
\* not collected
MaxProbeNodes == 2

ProbeAttrs ==
    {[name |-> "n", type |-> "library"],
     [name |-> "n", type |-> "framework",
      externalReferences |-> <<[type |-> "website", url |-> "https://example.org"],
                               [type |-> "vcs", url |-> "http://github.com/org/repo"],
                               [type |-> "vcs", url |-> "https://github.com/org/repo.git/"]>>],
     [type |-> "library",
      externalReferences |-> <<[type |-> "vcs", url |-> "https://127.0.0.1/repo"],
                               [type |-> "vcs", url |-> ""],
                               [type |-> "vcs"]>>]}

InitProbe == InitForest(ProbeAttrs, MaxProbeNodes)
SpecProbe == InitProbe /\ [][sbom_validate]_vars

\* once the probes are launched the event loop runs whatever can run, and
\* every GET comes back: with a response or, at the latest when its timeout
\* expires, with an exception
ProbeProgress ==
    \/ \E p \in DOMAIN tasks : ProbeSend(p)
    \/ \E p \in DOMAIN tasks : \E outcome \in Outcomes : ProbeComplete(p, outcome)
    \/ Gather
    \/ MergeVcsIssues

FairProbe == WF_vars(ProbeProgress)

SpecProbeFair == SpecProbe /\ FairProbe

\* components varying in their type: absent, null, empty, known, the
\* string "unknown", and one no list knows
TypeAttrs ==
    {[name |-> "n"] @@ Opt("type", t) :
        t \in {{}, {None}, {""}, {"library"}, {"data"}, {"unknown"}, {"gadget"}}}

InitTypes == InitForest(TypeAttrs, MaxNodes)
SpecTypes == InitTypes /\ [][validate_sbom]_vars

\* lines 16-17 and 468-472: the client follows redirects by itself,
\* follow_redirects=True, at most max_redirects of them for one GET
_VCS_MAX_REDIRECTS == 3

\* the redirects followed so far for the GET of probe p
Hops(reqs, p) == Cardinality({i \in DOMAIN reqs : reqs[i].probe = p}) - 1

\* the client follows a redirect while the GET has hops left
MayFollow(reqs, p) == Hops(reqs, p) < _VCS_MAX_REDIRECTS

\* the Location a server answers a GET with is the server's choice: another
\* repository host, or an address inside the network of the service
RedirectLocations ==
    {"https://gitlab.com/org/repo.git/info/refs?service=git-upload-pack",
     "http://169.254.169.254/latest/meta-data/"}

\* the server answers the pending GET of probe p with a 3xx and a Location;
\* the client sends the next GET there and the coroutine stays suspended in
\* `await client.get(check_url)`
FollowRedirect(p, location) ==
    /\ pc = "vcs_gather"
    /\ p \in DOMAIN tasks
    /\ Awaited(tasks, p)
    /\ MayFollow(requests, p)
    /\ requests' = Append(requests, [probe |-> p, url |-> location])
    /\ UNCHANGED <<document, pc, issues, response, arg, ret, unifyVars, storeVars, vcs_issues,
                   safe_entries, client, tasks>>

sbom_validate_redirects ==
    \/ sbom_validate
    \/ \E p \in DOMAIN tasks : \E location \in RedirectLocations : FollowRedirect(p, location)

MaxRedirectNodes == 1

InitRedirect == InitForest(ProbeAttrs, MaxRedirectNodes)
SpecRedirect == InitRedirect /\ [][sbom_validate_redirects]_vars

\* validate_sbom called on the "bom" of the UnifyResponse just returned
ValidateUnified ==
    /\ pc = "done"
    /\ heap # <<>>
    /\ document = <<>>
    /\ document' = Deref(heap, ret.bom)
    /\ pc' = "step1"
    /\ issues' = <<>>
    /\ response' = <<>>
    /\ UNCHANGED <<arg, ret, unifyVars, storeVars, vcsVars>>

unify_then_validate == unify_sboms \/ ValidateUnified \/ validate_sbom

\* documents whose components carry GOST values, nested or side by side,
\* the first document possibly passed twice
InitUnifyValidate ==
    InitUnifyOver(UnifyGostAttrs, GostDocFrames,
                  {[app_name |-> "App", app_version |-> "1.0", manufacturer |-> "Corp"]},
                  BOOLEAN)
SpecUnifyValidate == InitUnifyValidate /\ [][unify_then_validate]_vars

-----------------------------------------------------------------------------
(* storage/project_store.py: paths.  A path is the sequence of its         *)
(* segments below the root; the data directory holds no symbolic link, so  *)
(* that resolve() only removes the ".." segments.                          *)

\* str.startswith
startswith(s, prefix) == Len(s) >= Len(prefix) /\ SubSeq(s, 1, Len(prefix)) = prefix

\* the segments of a string that pathlib keeps: no empty one and no "."
Segments(s) == SelectSeq(Split(s, "/"), LAMBDA seg : seg # "" /\ seg # ".")

\* path / s: a string that begins with "/" replaces the path
Joined(path, s) ==
    IF startswith(s, "/") THEN Segments(s) ELSE path \o Segments(s)

\* Path.resolve(), from the i-th segment on, done being the segments resolved
RECURSIVE ResolveLoop(_, _, _)
ResolveLoop(path, i, done) ==
    IF i > Len(path) THEN done
    ELSE IF path[i] = ".."
         THEN ResolveLoop(path, i + 1,
                          IF done = <<>> THEN <<>> ELSE SubSeq(done, 1, Len(done) - 1))
         ELSE ResolveLoop(path, i + 1, Append(done, path[i]))

resolve(path) == ResolveLoop(path, 1, <<>>)

\* str(path)
RECURSIVE StrOfPath(_)
StrOfPath(path) ==
    IF path = <<>> THEN "/"
    ELSE IF Len(path) = 1 THEN "/" \o path[1]
    ELSE StrOfPath(SubSeq(path, 1, Len(path) - 1)) \o "/" \o path[Len(path)]

\* lines 22-25: ProjectStore("/data")
data_dir == <<"data">>
projects_index_file == data_dir \o <<"projects.json">>
projects_dir == data_dir \o <<"projects">>

\* the test of _get_project_dir on the segments in place of the characters
IsUnder_by_segments(project_dir, dir) ==
    Len(project_dir) >= Len(dir) /\ SubSeq(project_dir, 1, Len(dir)) = dir

\* line 50: str(project_dir).startswith(str(self.projects_dir.resolve()))
IsUnder(project_dir, dir) == startswith(StrOfPath(project_dir), StrOfPath(resolve(dir)))

\* lines 47-52
_get_project_dir(project_id) ==
    LET project_dir == resolve(Joined(projects_dir, project_id))
    IN  IF ~IsUnder(project_dir, projects_dir) THEN Raises("ValueError")
        ELSE Returns(project_dir)

\* Path.with_suffix and Path.stem on the last segment
Stem(name) ==
    LET i == RFind(name, ".", Len(name))
    IN  IF i <= 1 THEN name ELSE Upto(name, i - 1)

with_suffix(path, suffix) ==
    [path EXCEPT ![Len(path)] = Stem(@) \o suffix]

-----------------------------------------------------------------------------
(* storage/project_store.py: the files.  fs maps each path that exists to  *)
(* a directory or to a file with the JSON value it holds.                  *)

Dir == [kind |-> "dir"]
File(data) == [kind |-> "file", data |-> data]

\* Path.exists()
exists(f, path) == path \in DOMAIN f

Put(f, path, node) == [p \in DOMAIN f \cup {path} |-> IF p = path THEN node ELSE f[p]]
Remove(f, paths) == [p \in DOMAIN f \ paths |-> f[p]]

\* Path.mkdir(parents=True, exist_ok=True)
mkdir(f, path) ==
    [p \in DOMAIN f \cup {SubSeq(path, 1, n) : n \in 1..Len(path)} |->
        IF p \in DOMAIN f THEN f[p] ELSE Dir]

\* shutil.rmtree(path) keeping the directory itself and what is in its
\* subdirectories
rmtree_files_only(f, path) ==
    Remove(f, {p \in DOMAIN f : Len(p) = Len(path) + 1 /\ SubSeq(p, 1, Len(path)) = path
                                  /\ f[p].kind = "file"})

\* shutil.rmtree(path)
rmtree(f, path) ==
    Remove(f, {p \in DOMAIN f : Len(p) >= Len(path) /\ SubSeq(p, 1, Len(path)) = path})

\* lines 35-38
_read_json(f, path) == f[path].data

\* lines 40-45: the temporary file written, then renamed over the path
_write_json(f, path, data) ==
    Put(Remove(f, {with_suffix(path, ".tmp")}), path, File(data))

\* lines 54-56
_get_sboms_dir(project_id) ==
    LET project_dir == _get_project_dir(project_id)
    IN  IF project_dir.kind = "raised" THEN project_dir
        ELSE Returns(Append(project_dir.value, "sboms"))

\* datetime.now(timezone.utc).isoformat() at time t
isoformat(t) == "2025-01-01T00:00:0" \o ToString(t) \o "+00:00"

\* a call returning None
ReturnsNone == [kind |-> "none"]

\* a call's outcome: the files, the time, and what the call returns or raises
Outcome(f, t, r) == [fs |-> f, clock |-> t, ret |-> r]

\* lines 249-257
_touch_project(f, t, project_id) ==
    LET metadata_path == Append(_get_project_dir(project_id).value, "metadata.json")
    IN  IF exists(f, metadata_path)
        THEN Outcome(_write_json(f, metadata_path,
                                 [_read_json(f, metadata_path)
                                     EXCEPT !.updated_at = isoformat(t)]),
                     t + 1, ReturnsNone)
        ELSE Outcome(f, t, ReturnsNone)

\* lines 155-160
SbomInfo(sbom_data, id, fallback_name) ==
    LET metadata == Get(sbom_data, "metadata", <<>>)
        component == Get(metadata, "component", <<>>)
    IN  [id |-> id,
         name |-> Get(component, "name", fallback_name),
         version |-> Get(component, "version", ""),
         uploaded_at |-> Get(metadata, "timestamp", "")]

\* sboms_dir.glob("*.json"): the order is the directory's, so that the
\* result is given by its elements
glob_json(f, dir) ==
    {p \in DOMAIN f : /\ Len(p) = Len(dir) + 1
                      /\ SubSeq(p, 1, Len(dir)) = dir
                      /\ Len(p[Len(p)]) >= 5
                      /\ From(p[Len(p)], Len(p[Len(p)]) - 4) = ".json"}

\* lines 140-166
list_sboms(f, project_id) ==
    LET sboms_dir == _get_sboms_dir(project_id)
    IN  IF sboms_dir.kind = "raised" THEN sboms_dir
        ELSE IF ~exists(f, sboms_dir.value) THEN Returns({})
        ELSE Returns({SbomInfo(_read_json(f, sbom_file), Stem(sbom_file[Len(sbom_file)]),
                               Stem(sbom_file[Len(sbom_file)])) :
                         sbom_file \in {p \in glob_json(f, sboms_dir.value) :
                                           f[p].kind = "file"}})

\* lines 104-118
get_project(f, project_id) ==
    LET project_dir == _get_project_dir(project_id)
    IN  IF project_dir.kind = "raised" THEN project_dir
        ELSE LET metadata_path == Append(project_dir.value, "metadata.json")
             IN  IF ~exists(f, metadata_path) THEN ReturnsNone
                 ELSE Returns(SetKey(_read_json(f, metadata_path), "sboms",
                                     list_sboms(f, project_id).value))

\* lines 62-69, from the i-th identifier of the index on
RECURSIVE ListProjectsLoop(_, _, _)
ListProjectsLoop(f, ids, i) ==
    IF i > Len(ids) THEN <<>>
    ELSE LET metadata == get_project(f, ids[i])
         IN  (IF metadata.kind = "returned" /\ metadata.value # <<>>
              THEN <<metadata.value>> ELSE <<>>)
             \o ListProjectsLoop(f, ids, i + 1)

\* lines 58-70
list_projects(f) ==
    ListProjectsLoop(f, Get(_read_json(f, projects_index_file), "projects", <<>>), 1)

InSeq(x, s) == \E i \in DOMAIN s : s[i] = x

\* list.remove(x): the first occurrence
RemoveFirst(s, x) ==
    LET i == CHOOSE k \in DOMAIN s : s[k] = x /\ \A j \in 1..(k - 1) : s[j] # x
    IN  SubSeq(s, 1, i - 1) \o SubSeq(s, i + 1, Len(s))

\* lines 72-102, project_id being what uuid.uuid4 returned
create_project(f, t, project_id, name, description) ==
    LET project_dir == _get_project_dir(project_id).value
        now == isoformat(t)
        metadata == [id |-> project_id, name |-> name, description |-> description,
                     created_at |-> now, updated_at |-> now]
        f1 == mkdir(mkdir(f, project_dir), _get_sboms_dir(project_id).value)
        f2 == _write_json(f1, Append(project_dir, "metadata.json"), metadata)
        index == _read_json(f2, projects_index_file)
        projects == Get(index, "projects", <<>>)
    IN  Outcome(IF ~InSeq(project_id, projects)
                THEN _write_json(f2, projects_index_file,
                                 SetKey(index, "projects", Append(projects, project_id)))
                ELSE f2,
                t + 1, Returns(metadata))

\* lines 120-138
delete_project(f, t, project_id) ==
    LET project_dir == _get_project_dir(project_id)
    IN  IF project_dir.kind = "raised" THEN Outcome(f, t, project_dir)
        ELSE IF ~exists(f, project_dir.value) THEN Outcome(f, t, Returns(FALSE))
        ELSE LET f1 == rmtree(f, project_dir.value)
                 index == _read_json(f1, projects_index_file)
                 projects == Get(index, "projects", <<>>)
             IN  Outcome(IF InSeq(project_id, projects)
                         THEN _write_json(f1, projects_index_file,
                                          SetKey(index, "projects",
                                                 RemoveFirst(projects, project_id)))
                         ELSE f1,
                         t, Returns(TRUE))

\* the file of an SBOM: self._get_sboms_dir(project_id) / f"{sbom_id}.json"
SbomPath(project_id, sbom_id) ==
    LET sboms_dir == _get_sboms_dir(project_id)
    IN  IF sboms_dir.kind = "raised" THEN sboms_dir
        ELSE Returns(Joined(sboms_dir.value, sbom_id \o ".json"))

\* lines 168-203, sbom_id being what uuid.uuid4 returned
save_sbom(f, t, project_id, sbom_id, sbom_data, sbom_name) ==
    LET sboms_dir == _get_sboms_dir(project_id)
    IN  IF sboms_dir.kind = "raised" THEN Outcome(f, t, sboms_dir)
        ELSE IF ~exists(f, _get_project_dir(project_id).value)
             THEN Outcome(f, t, Raises("ValueError"))
        ELSE LET f1 == mkdir(f, sboms_dir.value)
                 with_metadata == IF Has(sbom_data, "metadata") THEN sbom_data
                                  ELSE SetKey(sbom_data, "metadata", <<>>)
                 stamped == Has(with_metadata.metadata, "timestamp")
                 data == IF stamped THEN with_metadata
                         ELSE SetKey(with_metadata, "metadata",
                                     SetKey(with_metadata.metadata, "timestamp",
                                            isoformat(t)))
                 t1 == IF stamped THEN t ELSE t + 1
                 f2 == _write_json(f1, Joined(sboms_dir.value, sbom_id \o ".json"), data)
                 touched == _touch_project(f2, t1, project_id)
                 info == SbomInfo(data, sbom_id, sbom_id)
             IN  Outcome(touched.fs, touched.clock,
                         Returns(IF sbom_name # "" THEN [info EXCEPT !.name = sbom_name]
                                 ELSE info))

\* lines 205-212
get_sbom(f, project_id, sbom_id) ==
    LET sbom_path == SbomPath(project_id, sbom_id)
    IN  IF sbom_path.kind = "raised" THEN sbom_path
        ELSE IF ~exists(f, sbom_path.value) THEN ReturnsNone
        ELSE Returns(_read_json(f, sbom_path.value))

\* lines 214-233
update_sbom(f, t, project_id, sbom_id, sbom_data) ==
    LET sbom_path == SbomPath(project_id, sbom_id)
    IN  IF sbom_path.kind = "raised" THEN Outcome(f, t, sbom_path)
        ELSE IF ~exists(f, sbom_path.value) THEN Outcome(f, t, Returns(FALSE))
        ELSE LET with_metadata == IF Has(sbom_data, "metadata") THEN sbom_data
                                  ELSE SetKey(sbom_data, "metadata", <<>>)
                 data == SetKey(with_metadata, "metadata",
                                SetKey(with_metadata.metadata, "timestamp", isoformat(t)))
                 touched == _touch_project(_write_json(f, sbom_path.value, data), t + 1,
                                           project_id)
             IN  Outcome(touched.fs, touched.clock, Returns(TRUE))

\* delete_sbom touching the project whether or not the file is there
delete_sbom_touch_always(f, t, project_id, sbom_id) ==
    LET sbom_path == SbomPath(project_id, sbom_id)
    IN  IF sbom_path.kind = "raised" THEN Outcome(f, t, sbom_path)
        ELSE LET touched == _touch_project(Remove(f, {sbom_path.value}), t, project_id)
             IN  Outcome(touched.fs, touched.clock,
                         Returns(exists(f, sbom_path.value)))

\* lines 235-247
delete_sbom(f, t, project_id, sbom_id) ==
    LET sbom_path == SbomPath(project_id, sbom_id)
    IN  IF sbom_path.kind = "raised" THEN Outcome(f, t, sbom_path)
        ELSE IF ~exists(f, sbom_path.value) THEN Outcome(f, t, Returns(FALSE))
        ELSE LET touched == _touch_project(Remove(f, {sbom_path.value}), t, project_id)
             IN  Outcome(touched.fs, touched.clock, Returns(TRUE))

-----------------------------------------------------------------------------
(* storage/project_store.py: the calls.  A method of the store runs from   *)
(* its call to its return without giving up control; arg records the call  *)
(* and ret what it returned or raised.                                     *)

MaxUuids == 3
MaxClock == 3

\* str(uuid.uuid4()): a value not returned before, without "/" and "."; the
\* store depends on nothing else of it, so the n-th call returns the n-th of
\* a list of such values
uuid4(ids) == "uuid-" \o ToString(Cardinality(DOMAIN ids) + 1)

\* an identifier of the same form that no call of uuid4 returns
NeverIssued == "uuid-0"

\* the identifiers a caller can hold: those the store has returned to it
KnownProjects == {id \in DOMAIN issued : issued[id] = "create_project"} \cup {NeverIssued}
KnownSboms == {id \in DOMAIN issued : issued[id] = "save_sbom"} \cup {NeverIssued}

SbomInputs ==
    {<<>>,
     [bomFormat |-> "CycloneDX",
      metadata |-> [timestamp |-> "2024-01-01T00:00:00Z",
                    component |-> [name |-> "svc", version |-> "1.0"]]]}

StoreCall(call, out, ids, projects) ==
    /\ pc = "store"
    /\ arg' = call
    /\ \E o \in {out} :
          /\ o.clock <= MaxClock
          /\ ret' = o.ret
          /\ fs' = o.fs
          /\ clock' = o.clock
    /\ issued' = ids
    /\ live' = projects
    /\ UNCHANGED <<document, pc, issues, response, unifyVars, vcsVars>>

Call_create_project ==
    /\ Cardinality(DOMAIN issued) < MaxUuids
    /\ LET project_id == uuid4(issued)
       IN  StoreCall([op |-> "create_project", name |-> "P", description |-> ""],
                     create_project(fs, clock, project_id, "P", ""),
                     SetKey(issued, project_id, "create_project"),
                     live \cup {project_id})

Call_delete_project(project_id) ==
    StoreCall([op |-> "delete_project", project_id |-> project_id],
              delete_project(fs, clock, project_id), issued, live \ {project_id})

Call_save_sbom(project_id, sbom_data) ==
    /\ Cardinality(DOMAIN issued) < MaxUuids
    /\ LET sbom_id == uuid4(issued)
       IN  StoreCall([op |-> "save_sbom", project_id |-> project_id,
                      sbom_data |-> sbom_data, sbom_name |-> ""],
                     save_sbom(fs, clock, project_id, sbom_id, sbom_data, ""),
                     SetKey(issued, sbom_id, "save_sbom"), live)

Call_update_sbom(project_id, sbom_id, sbom_data) ==
    StoreCall([op |-> "update_sbom", project_id |-> project_id, sbom_id |-> sbom_id,
                  sbom_data |-> sbom_data],
                 update_sbom(fs, clock, project_id, sbom_id, sbom_data), issued, live)

Call_delete_sbom(project_id, sbom_id) ==
    StoreCall([op |-> "delete_sbom", project_id |-> project_id, sbom_id |-> sbom_id],
                 delete_sbom(fs, clock, project_id, sbom_id), issued, live)

Call_get_sbom(project_id, sbom_id) ==
    StoreCall([op |-> "get_sbom", project_id |-> project_id, sbom_id |-> sbom_id],
              Outcome(fs, clock, get_sbom(fs, project_id, sbom_id)), issued, live)

Call_get_project(project_id) ==
    StoreCall([op |-> "get_project", project_id |-> project_id],
              Outcome(fs, clock, get_project(fs, project_id)), issued, live)

Call_list_projects ==
    StoreCall([op |-> "list_projects"],
              Outcome(fs, clock, Returns(list_projects(fs))), issued, live)

ProjectStore ==
    \/ Call_create_project
    \/ \E project_id \in KnownProjects : Call_delete_project(project_id)
    \/ \E project_id \in KnownProjects : \E sbom_data \in SbomInputs :
          Call_save_sbom(project_id, sbom_data)
    \/ \E project_id \in KnownProjects : \E sbom_id \in KnownSboms : \E sbom_data \in SbomInputs :
          Call_update_sbom(project_id, sbom_id, sbom_data)
    \/ \E project_id \in KnownProjects : \E sbom_id \in KnownSboms :
          Call_delete_sbom(project_id, sbom_id)
    \/ \E project_id \in KnownProjects : \E sbom_id \in KnownSboms :
          Call_get_sbom(project_id, sbom_id)
    \/ \E project_id \in KnownProjects : Call_get_project(project_id)
    \/ Call_list_projects

\* lines 22-33: ProjectStore("/data") on an empty disk
InitStore ==
    /\ fs = _write_json(mkdir(<<>>, projects_dir), projects_index_file,
                        [projects |-> <<>>])
    /\ clock = 0
    /\ issued = <<>>
    /\ live = {}
    /\ arg = [op |-> "__init__"]
    /\ ret = ReturnsNone
    /\ pc = "store"
    /\ document = <<>>
    /\ issues = <<>>
    /\ response = <<>>
    /\ NoUnifyCall
    /\ NoVcsCall

SpecStore == InitStore /\ [][ProjectStore]_vars

\* _get_project_dir called on a string: up to MaxSegments segments, with or
\* without a leading "/"
MaxSegments == 3

SegmentChoices == {"..", ".", "", "p1", "projects", "projects2", "projects.json"}

RECURSIVE JoinSegments(_)
JoinSegments(segs) ==
    IF Len(segs) = 1 THEN segs[1]
    ELSE JoinSegments(SubSeq(segs, 1, Len(segs) - 1)) \o "/" \o segs[Len(segs)]

Call_get_project_dir(project_id) ==
    /\ arg = [op |-> "_get_project_dir", project_id |-> project_id]
    /\ ret = [kind |-> "pending"]
    /\ pc = "call"
    /\ document = <<>>
    /\ issues = <<>>
    /\ response = <<>>
    /\ NoUnifyCall
    /\ NoVcsCall
    /\ NoStoreCall

Return_get_project_dir ==
    /\ pc = "call"
    /\ ret' = _get_project_dir(arg.project_id)
    /\ pc' = "done"
    /\ UNCHANGED <<document, issues, response, arg, unifyVars, vcsVars, storeVars>>

InitProjectDir ==
    \E n \in 1..MaxSegments : \E segs \in [1..n -> SegmentChoices] :
    \E root \in {"", "/"} :
        Call_get_project_dir(root \o JoinSegments(segs))

SpecProjectDir == InitProjectDir /\ [][Return_get_project_dir]_vars

-----------------------------------------------------------------------------
(* Vocabulary of the properties: the nodes of a component forest by        *)
(* position, independent of the traversals above.                          *)

\* the positions of all nodes: <<i>> is the i-th top-level component,
\* p \o <<j>> the j-th child of the node at p (counted from 1)
RECURSIVE Paths(_)
Paths(forest) ==
    UNION {{<<i>>} \cup {<<i>> \o q : q \in Paths(ChildrenOf(forest[i]))} :
           i \in 1..Len(forest)}

RECURSIVE NodeAt(_, _)
NodeAt(forest, p) ==
    IF Len(p) = 1 THEN forest[p[1]]
    ELSE NodeAt(ChildrenOf(forest[p[1]]), Tail(p))

\* $.components[i].components[j]... with indices counted from 0
RECURSIVE PathStr(_)
PathStr(p) ==
    IF Len(p) = 1 THEN "$.components[" \o ToString(p[1] - 1) \o "]"
    ELSE PathStr(SubSeq(p, 1, Len(p) - 1))
         \o ".components[" \o ToString(p[Len(p)] - 1) \o "]"

Parent(p) == SubSeq(p, 1, Len(p) - 1)

DocForest == Get(document, "components", <<>>)
DocPaths == Paths(DocForest)
DocNode(p) == NodeAt(DocForest, p)

\* the number of returned issues with the given message text and path
IssueCount(text, path) ==
    Cardinality({k \in 1..Len(response.issues) :
                    /\ response.issues[k].message[1] = text
                    /\ response.issues[k].path = path})

\* the returned issues with the given message text
IssuesWith(texts) ==
    {k \in 1..Len(response.issues) : response.issues[k].message[1] \in texts}

Rank(node, prop_name) == eval_prop(get_gost_prop(node, prop_name))

-----------------------------------------------------------------------------
(* C1: validate_sbom returns valid = true exactly when none of the issues  *)
(* it returns has level "error"; warnings, in any number, never make       *)
(* valid false.                                                            *)
C1_ValidIffNoErrorIssue ==
    pc = "done" =>
        (response.valid <=>
            \A k \in 1..Len(response.issues) : response.issues[k].level # "error")

\* a valid result that carries several warnings
C1_Witness ==
    /\ pc = "done"
    /\ response.valid
    /\ Cardinality({k \in 1..Len(response.issues) :
                       response.issues[k].level = "warning"}) >= 3

\* the hierarchy error and the pairs it is due for
HierarchyText == "child exceeds parent"

C2_Offends(p, prop_name) ==
    /\ Len(p) >= 2
    /\ Rank(DocNode(Parent(p)), prop_name) >= 0
    /\ Rank(DocNode(p), prop_name) > Rank(DocNode(Parent(p)), prop_name)

C2_ErrorFor(p, prop_name) ==
    ValidationIssue("error",
        <<HierarchyText, "GOST:" \o prop_name,
          DocNode(p).name, get_gost_prop(DocNode(p), prop_name),
          DocNode(Parent(p)).name, get_gost_prop(DocNode(Parent(p)), prop_name)>>,
        PathStr(p))

(* C2: the GOST hierarchy errors are exactly one per (node with children,  *)
(* direct child, property) with rank(parent) >= 0 and rank(child) >        *)
(* rank(parent), at every depth, each citing both names and both raw       *)
(* values; a parent of rank -1 never yields one.                           *)
C2_HierarchyErrorsExact ==
    pc = "done" =>
        /\ \A p \in DocPaths : \A prop_name \in {"attack_surface", "security_function"} :
              Cardinality({k \in 1..Len(response.issues) :
                              /\ response.issues[k].message[1] = HierarchyText
                              /\ response.issues[k].message[2] = "GOST:" \o prop_name
                              /\ response.issues[k].path = PathStr(p)})
                = IF C2_Offends(p, prop_name) THEN 1 ELSE 0
        /\ \A k \in IssuesWith({HierarchyText}) :
              \E p \in DocPaths : \E prop_name \in {"attack_surface", "security_function"} :
                 /\ C2_Offends(p, prop_name)
                 /\ response.issues[k] = C2_ErrorFor(p, prop_name)

\* a grandchild reported against its parent for both properties, while that
\* parent is not reported against the grandparent, which lacks the property
C2_Witness ==
    /\ pc = "done"
    /\ \E p \in DocPaths :
          /\ Len(p) = 3
          /\ C2_Offends(p, "attack_surface")
          /\ C2_Offends(p, "security_function")
          /\ IssueCount(HierarchyText, PathStr(p)) = 2
          /\ Rank(DocNode(Parent(Parent(p))), "attack_surface") = -1
          /\ Rank(DocNode(Parent(p)), "attack_surface") > -1
          /\ Cardinality(IssuesWith({HierarchyText})) = 2

\* the field-completeness warnings and the nodes they are due for
GostFieldTexts == {"GOST field missing", "GOST field empty"}

C3_Declares(node) ==
    \/ get_gost_prop(node, "attack_surface") # None
    \/ get_gost_prop(node, "security_function") # None

C3_Lacks(node, prop_name) == get_gost_prop(node, prop_name) \in {None, ""}

C3_AnyDeclared == \E p \in DocPaths : C3_Declares(DocNode(p))

C3_FieldWarningsFor(p, prop_name) ==
    {k \in IssuesWith(GostFieldTexts) :
        /\ response.issues[k].path = PathStr(p)
        /\ response.issues[k].message[2] = "GOST:" \o prop_name}

(* C3: no missing/empty GOST-field warning when no component at any depth  *)
(* declares attack_surface or security_function; when at least one does,   *)
(* every component at every depth gets one warning per field it lacks or   *)
(* declares as an empty string.                                            *)
C3_GostFieldCompleteness ==
    pc = "done" =>
        /\ ~C3_AnyDeclared => IssuesWith(GostFieldTexts) = {}
        /\ C3_AnyDeclared =>
              \A p \in DocPaths : \A prop_name \in {"attack_surface", "security_function"} :
                 /\ Cardinality(C3_FieldWarningsFor(p, prop_name))
                      = IF C3_Lacks(DocNode(p), prop_name) THEN 1 ELSE 0
                 /\ \A k \in C3_FieldWarningsFor(p, prop_name) :
                       /\ response.issues[k].level = "warning"
                       /\ response.issues[k].message[3] = DocNode(p).name
        /\ Cardinality(IssuesWith(GostFieldTexts))
             = IF C3_AnyDeclared
               THEN Cardinality({<<p, prop_name>> \in
                                   DocPaths \X {"attack_surface", "security_function"} :
                                   C3_Lacks(DocNode(p), prop_name)})
               ELSE 0

\* the only declaration sits at depth 3 and declares one field: that node is
\* warned about its other field and both ancestors about both fields
C3_Witness ==
    /\ pc = "done"
    /\ \E p \in DocPaths :
          /\ Len(p) = 3
          /\ \A q \in DocPaths : C3_Declares(DocNode(q)) <=> q = p
          /\ ~C3_Lacks(DocNode(p), "security_function")
          /\ Cardinality(C3_FieldWarningsFor(p, "attack_surface")) = 1
          /\ Cardinality(IssuesWith(GostFieldTexts)) = 5

(* C4: eval_prop maps "yes" to 2, "indirect" to 1 and "no" to 0 in any     *)
(* letter casing, and an absent value and every other string to -1.        *)
C4_EvalPropRanks ==
    pc = "done" =>
        /\ arg \in Casings("yes") => ret = 2
        /\ arg \in Casings("indirect") => ret = 1
        /\ arg \in Casings("no") => ret = 0
        /\ arg \notin (Casings("yes") \cup Casings("indirect") \cup Casings("no"))
              => ret = -1
        /\ ret \in {-1, 0, 1, 2}

\* a mixed-case spelling evaluated to its rank
C4_Witness == pc = "done" /\ arg = "inDIrect" /\ ret = 1

\* the maximum rank of a property over all nodes of the forest
C5_MaxRank(prop_name) ==
    LET ranks == {Rank(NodeAt(arg, p), prop_name) : p \in Paths(arg)} \cup {-1}
    IN  CHOOSE r \in ranks : \A q \in ranks : q <= r

(* C5: aggregating over flatten_components(components) returns a value     *)
(* whose rank is the maximum rank over all nodes at every depth; among     *)
(* nodes of that rank, the value of the first one in the flattened list;   *)
(* absent when no node has a recognized value.                             *)
C5_AggregateIsMaximum ==
    pc = "done" =>
        LET prop_name == ret.prop_name
            m == C5_MaxRank(prop_name)
            hits == {k \in 1..Len(ret.flat) : Rank(ret.flat[k], prop_name) = m}
        IN  /\ Len(ret.flat) = Cardinality(Paths(arg))
            /\ \A p \in Paths(arg) : \E k \in 1..Len(ret.flat) : ret.flat[k] = NodeAt(arg, p)
            /\ eval_prop(ret.value) = m
            /\ m = -1 => ret.value = None
            /\ m >= 0 =>
                  ret.value = get_gost_prop(
                      ret.flat[CHOOSE k \in hits : \A j \in hits : k <= j], prop_name)

\* the nodes of maximal rank sit at depths 2 and 3 under a lower-ranked root
\* and spell the value differently; the first one flattened is returned
C5_Witness ==
    /\ pc = "done"
    /\ \E p \in Paths(arg) :
          /\ Len(p) = 3
          /\ Rank(NodeAt(arg, p), ret.prop_name) = 2
          /\ Rank(NodeAt(arg, Parent(p)), ret.prop_name) = 2
          /\ Rank(NodeAt(arg, Parent(Parent(p))), ret.prop_name) < 2
          /\ get_gost_prop(NodeAt(arg, p), ret.prop_name)
                # get_gost_prop(NodeAt(arg, Parent(p)), ret.prop_name)
          /\ ret.value = get_gost_prop(NodeAt(arg, Parent(p)), ret.prop_name)

\* the missing-VCS warning
VcsText == "VCS reference missing"

(* C6: an application or library component gets exactly one VCS issue      *)
(* naming it, of level warning, when none of its externalReferences has    *)
(* type "vcs", and none when one does; an operating-system or framework    *)
(* component never gets one.                                               *)
C6_VcsIssuePerApplicationOrLibrary ==
    pc = "done" =>
        \A p \in DocPaths :
            LET node == DocNode(p)
                type == Get(node, "type", "")
            IN  /\ type \in {"application", "library"} =>
                      /\ IssueCount(VcsText, PathStr(p)) = IF HasVcs(node) THEN 0 ELSE 1
                      /\ \A k \in IssuesWith({VcsText}) :
                            response.issues[k].path = PathStr(p) =>
                               /\ response.issues[k].level = "warning"
                               /\ response.issues[k].message[2] = node.name
                /\ type \in {"operating-system", "framework"} =>
                      IssueCount(VcsText, PathStr(p)) = 0

(* C7 as stated: every component without a "vcs" reference whose type is   *)
(* anything other than operating-system or framework gets a missing-VCS    *)
(* warning.                                                                *)
C7_WarningForEveryNonSkippedType ==
    pc = "done" =>
        \A p \in DocPaths :
            (/\ ~HasVcs(DocNode(p))
             /\ Get(DocNode(p), "type", "") \notin {"operating-system", "framework"})
            => IssueCount(VcsText, PathStr(p)) >= 1

(* C7 as amended: a missing-VCS warning is emitted only for a component of *)
(* type application or library that has no "vcs" reference; a component of *)
(* any other type, or with no type, never gets one.                        *)
C7_WarningOnlyForApplicationOrLibrary ==
    pc = "done" =>
        /\ \A k \in IssuesWith({VcsText}) :
              /\ response.issues[k].level = "warning"
              /\ \E p \in DocPaths :
                    /\ response.issues[k].path = PathStr(p)
                    /\ Get(DocNode(p), "type", "") \in {"application", "library"}
                    /\ ~HasVcs(DocNode(p))
        /\ \A p \in DocPaths :
              Get(DocNode(p), "type", "") \notin {"application", "library"}
              => IssueCount(VcsText, PathStr(p)) = 0

\* a top-level container without a VCS reference is not warned about, while
\* the application beside it is
C7_Witness ==
    /\ pc = "done"
    /\ \E p, q \in DocPaths :
          /\ Len(p) = 1 /\ Len(q) = 1
          /\ Get(DocNode(p), "type", "") = "container"
          /\ ~HasVcs(DocNode(p))
          /\ IssueCount(VcsText, PathStr(p)) = 0
          /\ Get(DocNode(q), "type", "") = "application"
          /\ IssueCount(VcsText, PathStr(q)) = 1

\* the structural issues
StructuralPaths ==
    {"$.bomFormat", "$.specVersion", "$", "$.metadata", "$.metadata.timestamp"}

\* after step 1 the list holds the structural issues only
C8_IssueAt(level, path) ==
    \E k \in 1..Len(issues) : issues[k].level = level /\ issues[k].path = path

C8_ComponentLevelError ==
    \E k \in 1..Len(response.issues) :
        /\ response.issues[k].level = "error"
        /\ response.issues[k].path \notin StructuralPaths

C8_SpecVersionAbsent ==
    ~Has(document, "specVersion") \/ document.specVersion = None

(* C8 as stated: error-level structural issues exactly for a bomFormat     *)
(* different from "CycloneDX" (absent or null included) and for an absent  *)
(* specVersion; everything else the structural check reports is a warning  *)
(* and by itself leaves valid = true.                                      *)
C8_ErrorsExactlyForBomFormatAndAbsentSpecVersion ==
    /\ pc = "step2" =>
          /\ C8_IssueAt("error", "$.bomFormat")
                <=> Get(document, "bomFormat", None) # "CycloneDX"
          /\ C8_IssueAt("error", "$.specVersion") <=> C8_SpecVersionAbsent
          /\ \A k \in 1..Len(issues) :
                issues[k].level = "error" => issues[k].path \in {"$.bomFormat", "$.specVersion"}
    /\ pc = "done" =>
          ((/\ Get(document, "bomFormat", None) = "CycloneDX"
            /\ ~C8_SpecVersionAbsent
            /\ ~C8_ComponentLevelError) => response.valid)

(* C8 as amended: error-level structural issues exactly for a bomFormat    *)
(* different from "CycloneDX" (absent or null included) and for a          *)
(* specVersion that is absent, null or the empty string; a non-empty       *)
(* specVersion outside {"1.4","1.5","1.6"}, a missing metadata section, a  *)
(* missing metadata.timestamp and the absence of both components and       *)
(* vulnerabilities yield warnings only and by themselves leave valid true. *)
C8_StructuralErrorsAndWarnings ==
    /\ pc = "step2" =>
          /\ C8_IssueAt("error", "$.bomFormat")
                <=> Get(document, "bomFormat", None) # "CycloneDX"
          /\ C8_IssueAt("error", "$.specVersion") <=> ~TruthyStr(document, "specVersion")
          /\ \A k \in 1..Len(issues) :
                /\ issues[k].level \in {"error", "warning"}
                /\ issues[k].path \in StructuralPaths
                /\ issues[k].level = "error"
                      => issues[k].path \in {"$.bomFormat", "$.specVersion"}
          /\ C8_IssueAt("warning", "$.specVersion")
                <=> (/\ TruthyStr(document, "specVersion")
                     /\ document.specVersion \notin {"1.4", "1.5", "1.6"})
          /\ C8_IssueAt("warning", "$")
                <=> (~Has(document, "components") /\ ~Has(document, "vulnerabilities"))
          /\ C8_IssueAt("warning", "$.metadata") <=> ~TruthyColl(document, "metadata")
          /\ C8_IssueAt("warning", "$.metadata.timestamp")
                <=> (/\ TruthyColl(document, "metadata")
                     /\ ~TruthyStr(document.metadata, "timestamp"))
    /\ pc = "done" =>
          ((/\ Get(document, "bomFormat", None) = "CycloneDX"
            /\ TruthyStr(document, "specVersion")
            /\ ~C8_ComponentLevelError) => response.valid)

\* all four warning conditions at once, and the result is valid
C8_Witness ==
    /\ pc = "done"
    /\ Get(document, "bomFormat", None) = "CycloneDX"
    /\ Get(document, "specVersion", None) = "1.3"
    /\ ~Has(document, "metadata")
    /\ ~Has(document, "components") /\ ~Has(document, "vulnerabilities")
    /\ Len(response.issues) = 3
    /\ response.valid

(* C9: for every component at every depth, a missing type yields one error *)
(* and a missing name yields one error, independently, each located at the *)
(* node's positional path; so valid = false whenever a node lacks either.  *)
C9_RequiredFieldErrors ==
    pc = "done" =>
        /\ \A p \in DocPaths :
              /\ IssueCount("component must have a type", PathStr(p))
                   = IF TruthyStr(DocNode(p), "type") THEN 0 ELSE 1
              /\ IssueCount("component must have a name", PathStr(p))
                   = IF TruthyStr(DocNode(p), "name") THEN 0 ELSE 1
        /\ \A k \in IssuesWith({"component must have a type",
                                "component must have a name"}) :
              response.issues[k].level = "error"
        /\ (\E p \in DocPaths : ~Has(DocNode(p), "type") \/ ~Has(DocNode(p), "name"))
              => ~response.valid

\* a node at depth 3 lacks both fields under complete ancestors: two errors
C9_Witness ==
    /\ pc = "done"
    /\ \E p \in DocPaths :
          /\ Len(p) = 3
          /\ ~Has(DocNode(p), "type") /\ ~Has(DocNode(p), "name")
          /\ IssueCount("component must have a type", PathStr(p)) = 1
          /\ IssueCount("component must have a name", PathStr(p)) = 1
          /\ Cardinality({k \in 1..Len(response.issues) :
                             response.issues[k].level = "error"}) = 2
    /\ ~response.valid

(* C10: the returned issues are the structural, component-field, GOST      *)
(* hierarchy, GOST field-completeness and VCS-reference issues in this     *)
(* order, each rule set's output complete even after earlier errors.       *)
C10_Segments ==
    <<_validate_structure(document),
      IF DocForest # <<>> THEN _validate_components(DocForest, "$.components") ELSE <<>>,
      _validate_gost_hierarchy(document),
      _validate_gost_fields(document),
      _validate_vcs_references(document)>>

C10_IssuesInRuleSetOrder ==
    pc = "done" =>
        response.issues = C10_Segments[1] \o C10_Segments[2] \o C10_Segments[3]
                          \o C10_Segments[4] \o C10_Segments[5]

\* every rule set reports something and the first three report errors
C10_Witness ==
    /\ pc = "done"
    /\ \A n \in 1..5 : C10_Segments[n] # <<>>
    /\ \A n \in 1..3 : has_errors(C10_Segments[n])

-----------------------------------------------------------------------------
(* Vocabulary of the properties of unify_sboms: the documents passed and   *)
(* the BOM returned, as JSON values.                                       *)

UnifyReturned == pc = "done" /\ heap # <<>>

SourcesCount == Len(arg.documents)
InputDoc(i) == Deref(heap, arg.documents[i])
InputComponents(i) == Get(InputDoc(i), "components", <<>>)
InputMetaComponent(i) == Get(Get(InputDoc(i), "metadata", <<>>), "component", <<>>)
UnifiedBom == Deref(heap, ret.bom)
WrapperOf(i) == UnifiedBom.components[i]
AppBomRef == "unified-" \o arg.app_name \o "-" \o arg.app_version

FallbackBomRef(i) ==
    "unified-" \o Get(InputMetaComponent(i), "name", "Unknown")
    \o "-" \o Get(InputMetaComponent(i), "version", "")

\* what every wrapper has whatever its bom-ref: it is an application and
\* its children are the components list of its document, the list itself
\* when the document has one
C11_WrapsItsDocument(i) ==
    /\ WrapperOf(i).type = "application"
    /\ WrapperOf(i).components = InputComponents(i)
    /\ Has(InputDoc(i), "components") =>
          heap[heap[heap[ret.bom].fields.components].items[i]].fields.components
             = heap[arg.documents[i]].fields.components

\* C11 as stated: the metadata component's bom-ref is taken whenever the key
\* is present
C11_BomRefTakenWheneverPresent ==
    UnifyReturned =>
        /\ Len(UnifiedBom.components) = SourcesCount
        /\ \A i \in 1..SourcesCount :
              /\ C11_WrapsItsDocument(i)
              /\ WrapperOf(i)["bom-ref"] =
                    IF Has(InputMetaComponent(i), "bom-ref")
                    THEN InputMetaComponent(i)["bom-ref"]
                    ELSE FallbackBomRef(i)

(* C11: the BOM unify_sboms returns has exactly one wrapper per input      *)
(* document, in input order, also when a document is passed twice; the     *)
(* i-th wrapper has type "application", has the i-th document's components *)
(* list as its children, and its bom-ref is the metadata component's       *)
(* bom-ref when that is present and non-empty, and otherwise (absent, null *)
(* or empty) the fallback "unified-{name}-{version}" with the defaults     *)
(* "Unknown" and "".                                                       *)
C11_OneWrapperPerDocument ==
    UnifyReturned =>
        /\ Len(UnifiedBom.components) = SourcesCount
        /\ \A i \in 1..SourcesCount :
              /\ C11_WrapsItsDocument(i)
              /\ WrapperOf(i)["bom-ref"] =
                    IF Truthy(Get(InputMetaComponent(i), "bom-ref", None))
                    THEN InputMetaComponent(i)["bom-ref"]
                    ELSE FallbackBomRef(i)

\* two documents with components of their own: the first wrapper carries its
\* metadata component's bom-ref, the second, of a document without metadata,
\* the fallback made of the defaults
C11_Witness ==
    /\ UnifyReturned
    /\ SourcesCount = 2
    /\ arg.documents[1] # arg.documents[2]
    /\ InputComponents(1) # <<>>
    /\ InputComponents(2) # <<>>
    /\ WrapperOf(1)["bom-ref"] = "svc-ref"
    /\ ~Has(InputDoc(2), "metadata")
    /\ WrapperOf(2)["bom-ref"] = "unified-Unknown-"

\* the dependency entries of the first n documents, in order
RECURSIVE InputDependencies(_)
InputDependencies(n) ==
    IF n = 0 THEN <<>>
    ELSE InputDependencies(n - 1) \o Get(InputDoc(n), "dependencies", <<>>)

(* C12: when some input document has a non-empty dependencies list, the    *)
(* unified dependencies are the synthetic entry {ref: "unified-{appName}-  *)
(* {appVersion}", dependsOn: the wrappers' bom-refs in wrapper order}       *)
(* followed by every input entry, document by document and in each         *)
(* document's own order; when none has, the unified BOM has no             *)
(* dependencies field.                                                     *)
C12_DependencySynthesis ==
    UnifyReturned =>
        LET all == InputDependencies(SourcesCount)
        IN  IF all # <<>>
            THEN /\ Has(UnifiedBom, "dependencies")
                 /\ Len(UnifiedBom.dependencies) = 1 + Len(all)
                 /\ UnifiedBom.dependencies[1].ref = AppBomRef
                 /\ Len(UnifiedBom.dependencies[1].dependsOn) = SourcesCount
                 /\ \A i \in 1..SourcesCount :
                       UnifiedBom.dependencies[1].dependsOn[i] = WrapperOf(i)["bom-ref"]
                 /\ \A k \in 1..Len(all) : UnifiedBom.dependencies[k + 1] = all[k]
            ELSE ~Has(UnifiedBom, "dependencies")

\* two documents with different dependency lists, merged behind the
\* synthetic entry
C12_Witness ==
    /\ UnifyReturned
    /\ SourcesCount = 2
    /\ Len(Get(InputDoc(1), "dependencies", <<>>)) = 2
    /\ Len(Get(InputDoc(2), "dependencies", <<>>)) = 1
    /\ Len(UnifiedBom.dependencies) = 4
    /\ UnifiedBom.dependencies[1].dependsOn = <<"unified-web-", "svc-ref">>
    /\ UnifiedBom.dependencies[4].ref = "svc-ref"

AggregatedProps == {"attack_surface", "security_function"}
WrapperProperties(i) == Get(WrapperOf(i), "properties", <<>>)

\* the highest rank of prop_name among the components of the i-th document,
\* -1 when none has a recognized value
C13_MaxRank(i, prop_name) ==
    LET ranks == {Rank(NodeAt(InputComponents(i), p), prop_name) :
                     p \in Paths(InputComponents(i))} \cup {-1}
    IN  CHOOSE r \in ranks : \A q \in ranks : q <= r

(* C13: for each input document and each of attack_surface and             *)
(* security_function, the document's wrapper has the property              *)
(* cdx:gost:<prop> exactly when some component of that document, at any    *)
(* depth, has a recognized value; its value is then the value, as written, *)
(* of a component of that document whose rank is the highest in the        *)
(* document; and no property name occurs twice in a wrapper's properties.  *)
C13_WrapperAggregatesOwnComponents ==
    UnifyReturned =>
        \A i \in 1..SourcesCount : \A prop_name \in AggregatedProps :
            LET props == WrapperProperties(i)
                hits == {k \in 1..Len(props) : props[k].name = GOST_PREFIX \o prop_name}
                m == C13_MaxRank(i, prop_name)
            IN  /\ \A k, j \in 1..Len(props) : props[k].name = props[j].name => k = j
                /\ m = -1 => hits = {}
                /\ m >= 0 =>
                      /\ hits # {}
                      /\ \A k \in hits :
                            \E p \in Paths(InputComponents(i)) :
                               /\ Rank(NodeAt(InputComponents(i), p), prop_name) = m
                               /\ get_gost_prop(NodeAt(InputComponents(i), p), prop_name)
                                     = props[k].value

\* the first document's highest attack_surface is the "YES" of a nested
\* component, under a parent saying "no", while its metadata component says
\* "yes"; the second document has no component and its wrapper no property
C13_Witness ==
    /\ UnifyReturned
    /\ SourcesCount = 2
    /\ get_gost_prop(InputMetaComponent(1), "attack_surface") = "yes"
    /\ Len(InputComponents(1)) = 1
    /\ get_gost_prop(InputComponents(1)[1], "attack_surface") = "no"
    /\ ChildrenOf(InputComponents(1)[1]) # <<>>
    /\ get_gost_prop(ChildrenOf(InputComponents(1)[1])[1], "attack_surface") = "YES"
    /\ get_gost_prop(WrapperOf(1), "attack_surface") = "YES"
    /\ get_gost_prop(WrapperOf(1), "security_function") = "Yes"
    /\ get_gost_prop(WrapperOf(1), "provided_by") = "vendor"
    /\ InputComponents(2) = <<>>
    /\ ~Has(WrapperOf(2), "properties")

\* the number of component nodes of the first n documents
RECURSIVE C14_NodeCount(_)
C14_NodeCount(n) ==
    IF n = 0 THEN 0
    ELSE C14_NodeCount(n - 1) + Cardinality(Paths(InputComponents(n)))

(* C14: components_count is the number of component nodes of all input     *)
(* documents, at every depth and each node of each document counted once,  *)
(* plus the number of wrappers; sources_count is the number of input       *)
(* documents.                                                              *)
C14_ComponentsAndSourcesCount ==
    UnifyReturned =>
        /\ ret.components_count = C14_NodeCount(SourcesCount) + SourcesCount
        /\ ret.sources_count = SourcesCount

\* two documents, one of them with a component nested in another
C14_Witness ==
    /\ UnifyReturned
    /\ SourcesCount = 2
    /\ arg.documents[1] # arg.documents[2]
    /\ \E p \in Paths(InputComponents(1)) : Len(p) = 2
    /\ ret.components_count = 4
    /\ ret.sources_count = 2

\* the cells of the documents passed to unify_sboms
InputCells ==
    IF heap = <<>> THEN {}
    ELSE UNION {Reach(heap, arg.documents[i]) : i \in 1..Len(arg.documents)}

(* C20: no step of validate_sbom changes the document it was given, and no *)
(* step of unify_sboms changes a dict or list of an input document: every  *)
(* cell unify_sboms writes is one it created itself.                       *)
C20_InputsNeverModified ==
    [][/\ document' = document
       /\ \A a \in InputCells : heap'[a] = heap[a]]_vars

\* unify_sboms has returned a BOM that shares cells with both input
\* documents: their components lists and their dependency entries
C20_Witness ==
    /\ UnifyReturned
    /\ SourcesCount = 2
    /\ arg.documents[1] # arg.documents[2]
    /\ \A i \in 1..2 :
          /\ InputComponents(i) # <<>>
          /\ Get(InputDoc(i), "dependencies", <<>>) # <<>>
          /\ heap[arg.documents[i]].fields.components \in Reach(heap, ret.bom)
          /\ heap[heap[arg.documents[i]].fields.dependencies].items[1]
                \in Reach(heap, ret.bom)

-----------------------------------------------------------------------------
(* _is_safe_url                                                            *)

\* the URLs that stand for the finished call
CalledOn == {c \in UrlCases : pc = "done" /\ arg = c.url}

\* C17: _is_safe_url returns true only for a URL whose scheme is https and
\* whose hostname is non-empty, is none of localhost, 127.0.0.1, 0.0.0.0 and
\* ::1, is no IPv4 or IPv6 address and is not shaped like a dotted quad; it
\* returns false for http, file, scheme-less and empty URLs, and true for an
\* https URL with an ordinary hostname.
C17_SafeOnlyForHttpsHostnames ==
    pc = "is_safe_url" \/
    \A c \in CalledOn :
        /\ ret = TRUE =>
              /\ c.prefix \in {"https://", "HTTPS://"}
              /\ c.host # ""
              /\ c.host \notin {"localhost", "127.0.0.1", "0.0.0.0", "::1"}
              /\ c.kind \notin {"ipv4", "ipv6"}
              /\ c.kind # "quad"
        /\ c.prefix \in {"http://", "file://", "//", ""} => ret = FALSE
        /\ c.url = "" => ret = FALSE
        /\ (c.prefix \in {"https://", "HTTPS://"} /\ c.kind = "name") => ret = TRUE

C17_Witness ==
    /\ pc = "done"
    /\ arg = "https://github.com/org/repo.git"
    /\ ret = TRUE

-----------------------------------------------------------------------------
(* Vocabulary of the properties of validate_vcs_accessibility: the         *)
(* externalReferences entries of the document by node and position.        *)

\* the positions, in the node's externalReferences, of the entries of type
\* "vcs" with a non-empty url
VcsRefsOf(node) ==
    LET external_refs == Get(node, "externalReferences", <<>>)
    IN  {k \in DOMAIN external_refs :
            /\ Get(external_refs[k], "type", None) = "vcs"
            /\ Get(external_refs[k], "url", "") \notin {"", None}}

VcsUrl(node, k) == node.externalReferences[k].url

\* validate_vcs_accessibility has returned its list
VcsReturned == pc \in {"vcs_return", "responded"}

\* the returned issues at the given path
VcsIssuesAt(path) == {i \in DOMAIN vcs_issues : vcs_issues[i].path = path}

\* C15: validate_vcs_accessibility returns exactly one issue for each
\* externalReferences entry of type "vcs" with a non-empty url anywhere in the
\* component tree, whatever the order in which the probes complete; every
\* returned issue has level info or warning, so the merged response keeps its
\* valid; and no outcome of a probe makes the call raise.
C15_OneIssuePerVcsEntry ==
    /\ pc # "raised"
    /\ VcsReturned =>
          /\ \A p \in DocPaths :
                Cardinality(VcsIssuesAt(PathStr(p))) = Cardinality(VcsRefsOf(DocNode(p)))
          /\ \A i \in DOMAIN vcs_issues :
                /\ \E p \in DocPaths : vcs_issues[i].path = PathStr(p)
                /\ vcs_issues[i].level \in {"info", "warning"}
    /\ pc = "responded" =>
          /\ response.issues = issues \o vcs_issues
          /\ response.valid = ~has_errors(issues)
          /\ response.valid = ~has_errors(response.issues)

C15_Witness ==
    /\ pc = "responded"
    /\ Len(vcs_issues) = 4
    /\ Len(tasks) = 2
    /\ requests[1].probe = 2
    /\ tasks[1].resp = Raised("ReadTimeout")
    /\ tasks[2].resp = Raised("TooManyRedirects")

\* the entries _is_safe_url rejects, by node and position
RejectedRefsOf(node) == {k \in VcsRefsOf(node) : ~_is_safe_url(VcsUrl(node, k))}

SkippedAt(path, url) ==
    {i \in DOMAIN vcs_issues :
        /\ vcs_issues[i].path = path
        /\ vcs_issues[i].message[1] = "VCS URL skipped"
        /\ vcs_issues[i].message[3] = url}

C18_InfoExactlyForGitAdvertisement ==
    \A p \in DOMAIN tasks :
        tasks[p].state = "done" =>
            LET resp == tasks[p].resp
                advertised ==
                    /\ resp.kind = "response"
                    /\ resp.status_code = 200
                    /\ "content_type" \in DOMAIN resp.headers
                    /\ Contains(resp.headers.content_type,
                                "application/x-git-upload-pack-advertisement")
            IN  /\ tasks[p].result.kind = "returned"
                /\ tasks[p].result.value.level = IF advertised THEN "info" ELSE "warning"
                /\ tasks[p].result.value.path = tasks[p].entry.path

C18_Witness ==
    /\ Len(tasks) = 2
    /\ tasks[1].state = "done"
    /\ tasks[2].state = "done"
    /\ tasks[1].result.value.level = "info"
    /\ tasks[2].resp = Response(200, [content_type |-> "Application/X-Git-Upload-Pack-Advertisement"])

\* the probes are running
Launched == pc = "vcs_gather"

\* C19: in every interleaving of probe completions a probe that times out or
\* fails neither blocks nor cancels its siblings: a sent probe can always
\* complete, a completed probe keeps its result, the call returns only when
\* every probe has completed, with each probe's issue in the list, and it
\* does return.
C19_ProbesAreIndependent ==
    /\ [](\A p \in DOMAIN tasks :
             (Launched /\ tasks[p].state = "awaiting")
                => ENABLED (\E outcome \in Outcomes : ProbeComplete(p, outcome)))
    /\ [][\A p \in DOMAIN tasks : tasks[p].state = "done" => tasks'[p] = tasks[p]]_vars
    /\ [](VcsReturned =>
             \A p \in DOMAIN tasks :
                 /\ tasks[p].state = "done"
                 /\ vcs_issues[Len(vcs_issues) - Len(tasks) + p] = tasks[p].result.value)
    /\ (Launched ~> pc = "responded")

C19_Witness ==
    /\ pc = "responded"
    /\ Len(tasks) = 2
    /\ tasks[1].resp = Raised("ReadTimeout")
    /\ tasks[2].resp = Response(200, [content_type |-> GitMarker \o "; charset=utf-8"])
    /\ requests[1].probe = 1
    /\ vcs_issues[Len(vcs_issues)].level = "info"

-----------------------------------------------------------------------------
(* C25: the VCS reference check is applied per node to the whole tree:     *)
(* passing over an operating-system or framework component passes over     *)
(* that node only, and every component nested under it, at any depth, is   *)
(* still checked and gets the warning when it is an application or library *)
(* without a "vcs" reference.                                              *)

\* the proper ancestors of the node at p
AncestorsOf(p) == {SubSeq(p, 1, n) : n \in 1..(Len(p) - 1)}

C25_DescendantsOfSkippedNodesAreChecked ==
    pc = "done" =>
        \A p \in DocPaths :
            (\E a \in AncestorsOf(p) :
                Get(DocNode(a), "type", "") \in {"operating-system", "framework"})
            => IssueCount(VcsText, PathStr(p))
                  = IF /\ Get(DocNode(p), "type", "") \in {"application", "library"}
                       /\ ~HasVcs(DocNode(p))
                    THEN 1 ELSE 0

-----------------------------------------------------------------------------
(* The known-type check                                                    *)

UnknownTypeText == "unknown component type"

\* the types listed in the data model
DataModelTypes ==
    {"application", "library", "framework", "container", "platform",
     "operating-system", "device", "device-driver", "firmware", "file",
     "machine-learning-model", "data", "unknown"}

\* the issues of the known-type check are warnings at the type of a component
C26_UnknownTypeIssuesAreWarnings ==
    \A k \in IssuesWith({UnknownTypeText}) :
        /\ response.issues[k].level = "warning"
        /\ \E p \in DocPaths : response.issues[k].path = PathStr(p) \o ".type"

(* C26 as stated: for every component at every depth validate_sbom emits   *)
(* an unknown-type warning, never an error, exactly when the component's   *)
(* type is present and is not one of the thirteen types of the data model, *)
(* "unknown" among them.                                                   *)
C26_WarningExactlyOutsideDataModelTypes ==
    pc = "done" =>
        /\ C26_UnknownTypeIssuesAreWarnings
        /\ \A p \in DocPaths :
              IssueCount(UnknownTypeText, PathStr(p) \o ".type")
                 = IF /\ Has(DocNode(p), "type")
                      /\ DocNode(p).type \notin DataModelTypes
                   THEN 1 ELSE 0

(* C26 as amended: the warning is emitted exactly when the type is a       *)
(* non-empty string that is not one of the twelve types application,       *)
(* framework, library, container, platform, operating-system, device,      *)
(* device-driver, firmware, file, machine-learning-model, data; the type   *)
(* "unknown" gets the warning, an absent, null or empty type does not.     *)
C26_WarningExactlyOutsideTwelveTypes ==
    pc = "done" =>
        /\ C26_UnknownTypeIssuesAreWarnings
        /\ \A p \in DocPaths :
              IssueCount(UnknownTypeText, PathStr(p) \o ".type")
                 = IF /\ Has(DocNode(p), "type")
                      /\ DocNode(p).type \notin {None, ""}
                      /\ DocNode(p).type \notin (DataModelTypes \ {"unknown"})
                   THEN 1 ELSE 0

C26_Witness ==
    /\ pc = "done"
    /\ \E p, q, r \in DocPaths :
          /\ Len(p) = 3
          /\ Get(DocNode(p), "type", None) = "unknown"
          /\ IssueCount(UnknownTypeText, PathStr(p) \o ".type") = 1
          /\ Get(DocNode(q), "type", None) = ""
          /\ IssueCount(UnknownTypeText, PathStr(q) \o ".type") = 0
          /\ Get(DocNode(r), "type", None) = "data"
          /\ IssueCount(UnknownTypeText, PathStr(r) \o ".type") = 0

-----------------------------------------------------------------------------
(* The reach of the hierarchy check                                        *)

\* q lies strictly below p
IsDescendant(q, p) == Len(q) > Len(p) /\ SubSeq(q, 1, Len(p)) = p

\* the nodes strictly between p and its descendant q
Between(p, q) == {SubSeq(q, 1, n) : n \in (Len(p) + 1)..(Len(q) - 1)}

NoHierarchyError == pc = "done" /\ IssuesWith({HierarchyText}) = {}

(* C30 as stated: if validate_sbom reports no GOST hierarchy error, then   *)
(* for each of attack_surface and security_function every node with a      *)
(* recognized value has rank greater than or equal to the rank of every    *)
(* one of its descendants at any depth.                                    *)
C30_RankBoundsEveryDescendant ==
    NoHierarchyError =>
        \A prop_name \in {"attack_surface", "security_function"} :
            \A p, q \in DocPaths :
                (Rank(DocNode(p), prop_name) >= 0 /\ IsDescendant(q, p))
                => Rank(DocNode(p), prop_name) >= Rank(DocNode(q), prop_name)

(* C30 as amended: ... has rank greater than or equal to the rank of each  *)
(* of its direct children, and of every descendant that is joined to it by *)
(* nodes which all have a recognized value; a node without a recognized    *)
(* value in between ends the guarantee.                                    *)
C30_RankBoundsDescendantsAlongValuedChains ==
    NoHierarchyError =>
        \A prop_name \in {"attack_surface", "security_function"} :
            \A p, q \in DocPaths :
                (/\ Rank(DocNode(p), prop_name) >= 0
                 /\ IsDescendant(q, p)
                 /\ \A m \in Between(p, q) : Rank(DocNode(m), prop_name) >= 0)
                => Rank(DocNode(p), prop_name) >= Rank(DocNode(q), prop_name)

\* no error on a chain of three valued nodes whose top is above its
\* grandchild
C30_Witness ==
    /\ NoHierarchyError
    /\ \E p, q \in DocPaths :
          /\ Len(p) = 1 /\ Len(q) = 3 /\ IsDescendant(q, p)
          /\ Rank(DocNode(p), "attack_surface") = 2
          /\ Rank(DocNode(Parent(q)), "attack_surface") = 1
          /\ Rank(DocNode(q), "attack_surface") = 0

-----------------------------------------------------------------------------
(* C27: in every document produced by unify_sboms the bom-refs are unique: *)
(* the wrappers' bom-refs are pairwise distinct and distinct from the      *)
(* unified application's bom-ref, so that the dependsOn list of the        *)
(* synthetic top-level dependency names each wrapper once and never names  *)
(* its own ref.                                                            *)
C27_BomRefsAreUnique ==
    UnifyReturned =>
        /\ \A i, j \in 1..SourcesCount :
              i # j => WrapperOf(i)["bom-ref"] # WrapperOf(j)["bom-ref"]
        /\ \A i \in 1..SourcesCount : WrapperOf(i)["bom-ref"] # AppBomRef
        /\ Has(UnifiedBom, "dependencies") =>
              LET top_dep == UnifiedBom.dependencies[1]
              IN  /\ top_dep.ref = AppBomRef
                  /\ \A i, j \in DOMAIN top_dep.dependsOn :
                        i # j => top_dep.dependsOn[i] # top_dep.dependsOn[j]
                  /\ \A i \in DOMAIN top_dep.dependsOn : top_dep.dependsOn[i] # top_dep.ref

-----------------------------------------------------------------------------
(* The GETs of one validate_vcs_accessibility call                         *)

\* the entries the guard accepts, by node and position
SafeRefs ==
    UNION {{<<p, k>> : k \in VcsRefsOf(DocNode(p)) \ RejectedRefsOf(DocNode(p))} :
           p \in DocPaths}

\* their URLs
SafeUrls == {VcsUrl(DocNode(e[1]), e[2]) : e \in SafeRefs}

\* the probes are started without waiting for one another, and the call
\* returns only when all of them have finished
C24_FanOutFanIn ==
    /\ \A p \in DOMAIN tasks :
          (Launched /\ tasks[p].state = "created") => ENABLED ProbeSend(p)
    /\ VcsReturned => \A p \in DOMAIN tasks : tasks[p].state = "done"

C28_EveryRequestTargetsASafeUrl ==
    \A i \in DOMAIN requests : _is_safe_url(requests[i].url)

-----------------------------------------------------------------------------
\* validate_sbom has returned for the BOM unify_sboms returned
UnifiedValidated == pc = "done" /\ heap # <<>> /\ document # <<>>

\* the path of the i-th wrapper in the unified BOM
WrapperPath(i) == IndexPath("$.components", i)

\* the hierarchy errors validate_sbom reports for the i-th input document
InputHierarchyErrors(i) == _validate_gost_hierarchy(InputDoc(i))

\* the issue of an input document, as seen below the i-th wrapper
BelowWrapper(issue, i) == [issue EXCEPT !.path = WrapperPath(i) \o From(@, 2)]

(* C29: validate_sbom run on unify_sboms(...).bom reports no hierarchy      *)
(* error between a wrapper and its direct children, and every hierarchy    *)
(* error it reports lies below a wrapper and is a hierarchy error that      *)
(* validate_sbom reports for the corresponding input document.             *)
C29_UnificationIntroducesNoHierarchyViolation ==
    UnifiedValidated =>
        /\ \A i \in 1..SourcesCount : \A j \in 1..Len(InputComponents(i)) :
              IssueCount(HierarchyText, IndexPath(WrapperPath(i) \o ".components", j)) = 0
        /\ \A k \in IssuesWith({HierarchyText}) :
              \E i \in 1..SourcesCount : \E n \in DOMAIN InputHierarchyErrors(i) :
                 response.issues[k] = BelowWrapper(InputHierarchyErrors(i)[n], i)

\* a wrapper with an aggregated value over several components, and a
\* hierarchy error of the input reported below a wrapper
C29_Witness ==
    /\ UnifiedValidated
    /\ IssuesWith({HierarchyText}) # {}
    /\ \E i \in 1..SourcesCount :
          /\ Len(InputComponents(i)) >= 1
          /\ Rank(WrapperOf(i), "attack_surface") = 2
          /\ \E j \in 1..Len(InputComponents(i)) :
                Rank(InputComponents(i)[j], "attack_surface") = 0

-----------------------------------------------------------------------------
\* C21: for every project_id string, _get_project_dir either raises
\* ValueError or returns a path located inside the projects directory.
C21_ProjectDirIsInsideProjectsDir ==
    (pc = "done" /\ arg.op = "_get_project_dir") =>
        \/ ret = Raises("ValueError")
        \/ ret.kind = "returned" /\ IsUnder_by_segments(ret.value, projects_dir)

-----------------------------------------------------------------------------
(* Vocabulary of the properties of the store: the layout of the docstring, *)
(* /data/projects/{project_id}/sboms/{sbom_id}.json.                       *)

ProjectPath(project_id) == projects_dir \o <<project_id>>
SbomFile(project_id, sbom_id) == ProjectPath(project_id) \o <<"sboms", sbom_id \o ".json">>

\* what is on disk at or below a path
Below(f, path) ==
    {p \in DOMAIN f : Len(p) >= Len(path) /\ SubSeq(p, 1, Len(path)) = path}

\* a project as its methods show it: its details and each of its SBOMs
Shown(f, project_id) ==
    [project |-> get_project(f, project_id),
     sboms |-> [sbom_id \in DOMAIN issued |-> get_sbom(f, project_id, sbom_id)]]

C22_ListedAreLive ==
    LET projects == list_projects(fs)
    IN  /\ {projects[i].id : i \in DOMAIN projects} = live
        /\ \A i, j \in DOMAIN projects : projects[i].id = projects[j].id => i = j

C22_DeleteStep ==
    arg'.op = "delete_project" =>
        LET project_id == arg'.project_id
        IN  /\ ret' = Returns(project_id \in live)
            /\ get_project(fs', project_id) = ReturnsNone
            /\ Below(fs', ProjectPath(project_id)) = {}
            /\ \A other \in live \ {project_id} :
                  Shown(fs', other) = Shown(fs, other)

(* C22: after any sequence of create_project and delete_project calls,     *)
(* list_projects returns exactly the projects created and not yet deleted, *)
(* each once and with a distinct id; delete_project returns True exactly   *)
(* when the project existed, after which get_project returns None for it   *)
(* and its SBOMs are gone, while every other project and its SBOMs are     *)
(* unchanged.                                                              *)
C22_ListAndDelete == [](pc = "store" => C22_ListedAreLive) /\ [][C22_DeleteStep]_vars

\* a project with an SBOM is left after another project was deleted
C22_Witness ==
    /\ pc = "store"
    /\ arg.op = "delete_project"
    /\ ret = Returns(TRUE)
    /\ \E other \in live : \E sbom_id \in DOMAIN issued :
          SbomFile(other, sbom_id) \in DOMAIN fs

C23_MissingTargetStep ==
    /\ (arg'.op = "save_sbom" /\ arg'.project_id \notin live) =>
          ret' = Raises("ValueError") /\ fs' = fs
    /\ (/\ arg'.op \in {"update_sbom", "delete_sbom"}
        /\ SbomFile(arg'.project_id, arg'.sbom_id) \notin DOMAIN fs) =>
          ret' = Returns(FALSE) /\ fs' = fs
    /\ (/\ arg'.op = "get_sbom"
        /\ SbomFile(arg'.project_id, arg'.sbom_id) \notin DOMAIN fs) =>
          ret' = ReturnsNone /\ fs' = fs

(* C23: save_sbom on a project that does not exist raises ValueError       *)
(* without creating any file or directory; update_sbom and delete_sbom on  *)
(* an SBOM id that does not exist return False and leave every stored SBOM *)
(* and the project's updated_at untouched; get_sbom returns None.          *)
C23_MissingTargetsChangeNothing == [][C23_MissingTargetStep]_vars

\* delete_sbom has returned False for a project that holds another SBOM and
\* was touched since its creation
C23_Witness ==
    /\ pc = "store"
    /\ arg.op = "delete_sbom"
    /\ ret = Returns(FALSE)
    /\ arg.project_id \in live
    /\ \E sbom_id \in DOMAIN issued : SbomFile(arg.project_id, sbom_id) \in DOMAIN fs
    /\ LET metadata == get_project(fs, arg.project_id).value
       IN  metadata.updated_at # metadata.created_at

====
